---- MODULE Spec2Model ----
(***************************************************************************)
(* Model of the grounded answering pipeline of LevitechDemo: the whitelist *)
(* gated legal source fetcher and its snapshot cache, the citation         *)
(* validator, and the answer engine's bounded retry loop.                  *)
(*                                                                         *)
(* Python strings are modelled as sequences of one-character strings, so   *)
(* that suffix tests, substring tests, case folding and white space        *)
(* normalisation are computed as the code computes them.                   *)
(***************************************************************************)
EXTENDS Integers, Sequences, FiniteSets, TLC

VARIABLES
    whitelist,   \* config.WHITELIST_DOMAINS: sequence of domain strings
    cache,       \* LEGAL_CACHE_DIR: cache path -> directory state
    last,        \* the last completed fetcher / validator call and its result
    wpc, wjob,   \* store_source in progress: position and arguments
    rpc, rbuf,   \* _load_source_from_path in progress: position and what it read
    robs,        \* what the last completed cache read returned
    wlog,        \* the snapshots store_source was asked to write, as a reader would load them
    wdone,       \* whether some store_source has run to completion
    ex, src, mres,      \* excerpt matching: the two inputs and the result
    store,       \* the case's chunk store: index.json and the raw_text files
    session,     \* the case's session.json
    env,         \* generate_answer: what retrieval returned, and the session at entry
    pc,          \* generate_answer: idle, loop, waiting, returned, raised
    attempt, validation_errors, current_prompt, answer_text, citations,
                 \* generate_answer: its local variables of the same names
    llm_calls,   \* chat completions requested by the current generate_answer call
    hist,        \* what each attempt of the current call produced
    response,    \* the AnswerResponse returned
    exc,         \* the exception generate_answer ended with, "" when none
    session_updates,    \* update_session_with_turn calls made by the current call
    bm25_scores, \* search: bm25.get_scores(query_tokens), one score per indexed chunk
    chroma_distances,   \* search: the distance of each chunk of the collection from the query
    sq,          \* search: the mode and top_k of the call made
    sres,        \* search: the list ranked and the list returned
    kase,        \* one case: document_index.json, raw_text/, collection, files, lexical index
    clast,       \* the last completed upload, delete or search of the case
    uploads,     \* uploads begun
    failed,      \* whether some upload ended in an error
    returned,    \* ids of the chunks whose upload has returned and was not deleted
    upc, ujob,   \* an upload in progress: position, file name and chunks
    qpc, qjob,   \* a search in progress: position, mode, what build_index read
    tenants,     \* several cases: case id -> directory contents and _indices entry
    partitions,  \* the collections of the vector store, by collection name
    tlast,       \* the last upload, delete or search among the cases
    tuploads,    \* uploads made among the cases
    cases_dir,   \* the entries of CASES_DIR by name
    plast,       \* the last call that went through the path validator
    case_dir,    \* the entries of one case directory by name
    flast,       \* the last validate_file_path call and its result
    vcase,       \* a case on disk: index, raw text files and the raw_text directory
    vnext,       \* the number of chunks made so far in that case
    vlast,       \* the last validation of a list of citations and its verdicts
    parsed,      \* the last answer text parsed, with straight and with curly quotes
    dpc,         \* where the delete handler of the case stands
    djob,        \* what that delete handler holds: file name, chunk ids, the index it loaded
    ddone,       \* the files whose delete has returned and that were not uploaded since
    dobs,        \* what the last request that ran beside or after a delete saw
    ureq,        \* the last upload request of the case, from its first line on
    glast,       \* the last get_legal_sources_for_query call and what it returned
    wlast,       \* the last URL put to the two whitelist tests, with the whitelist and both verdicts
    dlast,       \* the last document processed: its chunks, and their provenance as stored and as read back
    sdisk        \* session.json and session.tmp of a case, and the update_session_with_turn calls under way

fetchVars  == <<whitelist, cache, last>>
storeVars  == <<wpc, wjob, rpc, rbuf, robs, wlog, wdone>>
matchVars  == <<ex, src, mres>>
answerVars == <<store, session, env, pc, attempt, validation_errors, current_prompt,
                answer_text, citations, llm_calls, hist, response, exc, session_updates>>
searchVars == <<bm25_scores, chroma_distances, sq, sres>>
caseVars == <<kase, clast, uploads, failed, returned, upc, ujob, qpc, qjob>>
tenantVars == <<tenants, partitions, tlast, tuploads>>
pathVars == <<cases_dir, plast>>
fileVars == <<case_dir, flast>>
validateVars == <<vcase, vnext, vlast>>
parseVars == <<parsed>>
deleteVars == <<dpc, djob, ddone, dobs>>
requestVars == <<ureq>>
queryVars == <<glast>>
whitelistVars == <<wlast>>
processVars == <<dlast>>
sessionFileVars == <<sdisk>>
extraVars == <<fileVars, validateVars, parseVars, deleteVars, requestVars, queryVars, whitelistVars, processVars, sessionFileVars>>
caseSideVars == <<searchVars, caseVars, tenantVars, pathVars, extraVars>>
vars == <<fetchVars, storeVars, matchVars, answerVars, caseSideVars>>

(***************************************************************************)
(* Strings.                                                                *)
(***************************************************************************)
CR == "\r"
LF == "\n"
SP == " "
Whitespace == {SP, LF, CR, "\t"}

\* str.lower() on the letters the model uses
LowerChar(c) ==
    CASE c = "A" -> "a"
      [] c = "B" -> "b"
      [] c = "G" -> "g"
      [] c = "O" -> "o"
      [] c = "V" -> "v"
      [] c = "U" -> "u"
      [] c = "K" -> "k"
      [] c = "W" -> "w"
      [] OTHER -> c

Lower(s) == [i \in 1..Len(s) |-> LowerChar(s[i])]

StartsWith(s, p) == Len(p) <= Len(s) /\ SubSeq(s, 1, Len(p)) = p

EndsWith(s, p) == Len(p) <= Len(s) /\ SubSeq(s, Len(s) - Len(p) + 1, Len(s)) = p

\* Python's `p in s` on strings
Contains(s, p) == \E i \in 0..(Len(s) - Len(p)) : SubSeq(s, i + 1, i + Len(p)) = p

\* str.strip()
RECURSIVE LStrip(_)
LStrip(s) == IF s # <<>> /\ Head(s) \in Whitespace THEN LStrip(Tail(s)) ELSE s

RECURSIVE RStrip(_)
RStrip(s) ==
    IF s # <<>> /\ s[Len(s)] \in Whitespace THEN RStrip(SubSeq(s, 1, Len(s) - 1)) ELSE s

Strip(s) == RStrip(LStrip(s))

\* re.sub(r'\s+', ' ', s): every run of white space becomes one space
RECURSIVE CollapseWs(_)
CollapseWs(s) ==
    IF s = <<>> THEN <<>>
    ELSE IF Head(s) \in Whitespace
         THEN <<SP>> \o CollapseWs(LStrip(s))
         ELSE <<Head(s)>> \o CollapseWs(Tail(s))

\* str.split(): the maximal runs of non white space characters
RECURSIVE SplitWords(_, _)
SplitWords(s, cur) ==
    IF s = <<>> THEN (IF cur = <<>> THEN <<>> ELSE <<cur>>)
    ELSE IF Head(s) \in Whitespace
         THEN (IF cur = <<>> THEN <<>> ELSE <<cur>>) \o SplitWords(Tail(s), <<>>)
         ELSE SplitWords(Tail(s), Append(cur, Head(s)))

Split(s) == SplitWords(s, <<>>)

\* "sep".join(parts)
RECURSIVE Join(_, _)
Join(parts, sep) ==
    IF parts = <<>> THEN <<>>
    ELSE IF Len(parts) = 1 THEN parts[1]
    ELSE parts[1] \o sep \o Join(Tail(parts), sep)

\* An optional value: <<>> is None, <<x>> is x
None == <<>>
Some(x) == <<x>>

(***************************************************************************)
(* URLs and the whitelist (config.py, legal_retriever.is_domain_whitelisted)*)
(***************************************************************************)
S_https == <<"h","t","t","p","s",":","/","/">>
D_acas == <<"a","c","a","s",".","o","r","g",".","u","k">>
D_gov == <<"g","o","v",".","u","k">>
D_citizens == <<"c","i","t","i","z","e","n","s","a","d","v","i","c","e",".","o","r","g",".","u","k">>

\* config.WHITELIST_DOMAINS
WHITELIST_DOMAINS == <<D_acas, D_gov, D_citizens>>

U_gov == S_https \o <<"W","w","w",".">> \o D_gov \o <<"/","a">>
U_acas == S_https \o D_acas \o <<"/","b">>
U_evil == S_https \o <<"e","v","i","l",".","e","x",".","c","o","m">> \o <<"/","p">>
U_evilgov == S_https \o <<"e","v","i","l">> \o D_gov \o <<"/","x">>

U_comma == S_https \o D_gov \o <<"/","a",",","b">>
Urls == {U_gov, U_acas, U_evil, U_evilgov}

\* the prefixes the search helpers put before a relative href, and the URLs
\* they make of the href "/a"
B_gov == S_https \o <<"w","w","w",".">> \o D_gov
B_acas == S_https \o <<"w","w","w",".">> \o D_acas
B_citizens == S_https \o <<"w","w","w",".">> \o D_citizens
H_rel == <<"/","a">>
U_gov_rel == B_gov \o H_rel
U_acas_rel == B_acas \o H_rel
U_citizens_rel == B_citizens \o H_rel

KnownUrls == Urls \cup {U_comma, U_gov_rel, U_acas_rel, U_citizens_rel}

\* urlparse(url).netloc: what follows "://" up to the first "/", "?" or "#"
RECURSIVE UntilDelim(_)
UntilDelim(s) ==
    IF s = <<>> \/ Head(s) \in {"/", "?", "#"} THEN <<>>
    ELSE <<Head(s)>> \o UntilDelim(Tail(s))

RECURSIVE AfterScheme(_)
AfterScheme(s) ==
    IF Len(s) < 3 THEN <<>>
    ELSE IF SubSeq(s, 1, 3) = <<":","/","/">> THEN SubSeq(s, 4, Len(s))
    ELSE AfterScheme(Tail(s))

\* the netloc of every URL of the model, computed once
NetlocTable == [u \in KnownUrls |-> UntilDelim(AfterScheme(u))]

Netloc(url) == IF url \in KnownUrls THEN NetlocTable[url] ELSE UntilDelim(AfterScheme(url))

\* domain == allowed or domain.endswith("." + allowed)
DomainMatches(domain, allowed) == domain = allowed \/ EndsWith(domain, <<".">> \o allowed)

is_domain_whitelisted(url, wl) ==
    LET domain == Lower(Netloc(url))
    IN  \E i \in 1..Len(wl) : DomainMatches(domain, wl[i])

\* validate_legal_citation, check 3: domain = urlparse(source.url).netloc.lower(),
\* any(domain == d or domain.endswith("." + d) for d in config.WHITELIST_DOMAINS)
is_whitelisted(url, wl) ==
    LET domain == Lower(Netloc(url))
    IN  \E d \in {wl[i] : i \in 1..Len(wl)} : domain = d \/ EndsWith(domain, <<".">> \o d)

(***************************************************************************)
(* The snapshot cache (legal_cache_service.py).                            *)
(* A file is None when absent, else Some(content); meta.json holds a JSON  *)
(* value that either parses to the meta object or does not (a file that    *)
(* was opened for writing and not yet written is empty).                   *)
(***************************************************************************)
UrlList == <<U_gov, U_acas, U_evil, U_evilgov, U_comma, U_gov_rel, U_acas_rel, U_citizens_rel>>
HexDigits == <<"1", "2", "3", "4", "5", "6", "7", "8">>

\* sha256(url).hexdigest()[:16], taken as injective on the URLs of the model
HashTable == [u \in KnownUrls |-> <<"#", HexDigits[CHOOSE i \in 1..Len(UrlList) : UrlList[i] = u]>>]

_url_to_hash(url) == HashTable[url]

UnknownId == <<"#", "0">>

\* urlparse(url).netloc, not lower-cased
_get_domain(url) == Netloc(url)

\* LEGAL_CACHE_DIR / domain / url_hash
_get_cache_path(url) == <<_get_domain(url), _url_to_hash(url)>>

CachePaths == {_get_cache_path(u) : u \in KnownUrls}

NoDir == [exists |-> FALSE, html |-> None, text |-> None, meta |-> None]
EmptyCache == [p \in CachePaths |-> NoDir]

NoMeta == [id |-> <<>>, url |-> <<>>, domain |-> <<>>, title |-> <<>>,
           content_hash |-> <<>>, fetched_at |-> <<>>]
EmptyJson == [parses |-> FALSE, obj |-> NoMeta]

\* open(path, "w"): POSIX text mode writes "\n" as "\n", so the characters
\* reach the file unchanged
WriteTextMode(s) == s

\* open(path, "r"): universal newlines turn "\r\n" and "\r" into "\n"
\* (computed by halves, never cutting between "\r" and "\n", so that long
\* texts need little depth)
RECURSIVE ReadTextMode(_)
ReadTextMode(s) ==
    IF s = <<>> THEN <<>>
    ELSE IF Len(s) = 1 THEN (IF s[1] = CR THEN <<LF>> ELSE s)
    ELSE IF s = <<CR, LF>> THEN <<LF>>
    ELSE LET half == Len(s) \div 2
             cut == IF s[half] = CR /\ s[half + 1] = LF /\ half + 1 < Len(s)
                    THEN half + 1 ELSE half
         IN  IF s[cut] = CR /\ s[cut + 1] = LF
             THEN ReadTextMode(SubSeq(s, 1, cut - 1)) \o <<LF>>
                    \o ReadTextMode(SubSeq(s, cut + 2, Len(s)))
             ELSE ReadTextMode(SubSeq(s, 1, cut)) \o ReadTextMode(SubSeq(s, cut + 1, Len(s)))

\* datetime.isoformat(): the microseconds are printed only when non-zero
IsoFormat(dt) == IF dt.micro = 0 THEN <<dt.sec>> ELSE <<dt.sec, dt.micro>>

\* datetime.fromisoformat()
FromIsoFormat(s) == [sec |-> s[1], micro |-> IF Len(s) >= 2 THEN s[2] ELSE 0]

\* hashlib.sha256(text).hexdigest(), taken as injective
ContentHash(text) == <<"sha256:">> \o text

ExcerptLimit == 500

\* text[:500].strip(), then "..." when the text is longer
MakeExcerpt(text) ==
    LET head == Strip(SubSeq(text, 1, IF Len(text) < ExcerptLimit THEN Len(text) ELSE ExcerptLimit))
    IN  IF Len(text) > ExcerptLimit THEN head \o <<".", ".", ".">> ELSE head

\* the steps of store_source on the directory of one URL
MkDir(c, p) == IF c[p].exists THEN c ELSE [c EXCEPT ![p].exists = TRUE]
OpenHtml(c, p) == [c EXCEPT ![p].html = Some(<<>>)]
WriteHtml(c, p, html) == [c EXCEPT ![p].html = Some(WriteTextMode(html))]
OpenText(c, p) == [c EXCEPT ![p].text = Some(<<>>)]
WriteText(c, p, text) == [c EXCEPT ![p].text = Some(WriteTextMode(text))]
OpenMeta(c, p) == [c EXCEPT ![p].meta = Some(EmptyJson)]
WriteMeta(c, p, meta) == [c EXCEPT ![p].meta = Some([parses |-> TRUE, obj |-> meta])]

MetaOf(url, text, title, now) ==
    [id |-> _url_to_hash(url), url |-> url, domain |-> _get_domain(url),
     title |-> title, content_hash |-> ContentHash(text),
     fetched_at |-> IsoFormat(now)]

\* the LegalSource store_source returns, built from its arguments
StoredSource(url, html, text, title, now) ==
    [id |-> _url_to_hash(url), url |-> url, domain |-> _get_domain(url),
     title |-> title, excerpt |-> MakeExcerpt(text), text |-> text, html |-> html,
     content_hash |-> ContentHash(text), fetched_at |-> now]

\* the cache after a store_source that ran to completion undisturbed
store_source(c, url, html, text, title, now) ==
    LET p == _get_cache_path(url)
    IN  WriteMeta(WriteText(OpenText(WriteHtml(OpenHtml(MkDir(c, p), p), p, html), p), p, text),
                  p, MetaOf(url, text, title, now))

\* the LegalSource built from what was read from meta.json, source.txt, source.html
LoadedSource(meta, text, html) ==
    [id |-> meta.id, url |-> meta.url, domain |-> meta.domain, title |-> meta.title,
     excerpt |-> MakeExcerpt(text), text |-> text, html |-> html,
     content_hash |-> meta.content_hash, fetched_at |-> FromIsoFormat(meta.fetched_at)]

ReadFile(f) == IF f = None THEN <<>> ELSE ReadTextMode(f[1])

\* _load_source_from_path on a directory nobody is writing
_load_source_from_path(d) ==
    IF d.meta = None THEN None
    ELSE IF ~d.meta[1].parses THEN None
    ELSE Some(LoadedSource(d.meta[1].obj, ReadFile(d.text), ReadFile(d.html)))

get_source_by_url(c, url) ==
    LET p == _get_cache_path(url)
    IN  IF c[p].exists THEN _load_source_from_path(c[p]) ELSE None

\* get_source: the first domain directory that holds source_id
get_source(c, source_id) ==
    LET hits == {p \in CachePaths : p[2] = source_id /\ c[p].exists}
    IN  IF hits = {} THEN None ELSE _load_source_from_path(c[CHOOSE p \in hits : TRUE])

(***************************************************************************)
(* HTML parsing (legal_retriever.fetch_legal_source, _extract_text).       *)
(* A page is a sequence of characters and <title> elements; the pages of   *)
(* the model carry no other markup.                                        *)
(***************************************************************************)
TitleTag == "<title>t</title>"

H_plain == <<"a", SP, "b">>
H_crlf == <<TitleTag, "a", CR, LF, "b", SP>>
H_upper == <<"A", SP, SP, "b", LF, LF, "a">>
Pages == {H_plain, H_crlf, H_upper}

\* soup.find("title").get_text().strip(), "" without a title tag
PageTitle(html) == IF \E i \in 1..Len(html) : html[i] = TitleTag THEN <<"t">> ELSE <<>>

\* soup.get_text(separator="\n"): the text nodes, one per line
\* (computed by halves, so that long pages need little depth)
RECURSIVE GetText(_)
GetText(html) ==
    IF html = <<>> THEN <<>>
    ELSE IF Len(html) = 1 THEN (IF html[1] = TitleTag THEN <<LF, "t", LF>> ELSE html)
    ELSE LET half == Len(html) \div 2
         IN  GetText(SubSeq(html, 1, half)) \o GetText(SubSeq(html, half + 1, Len(html)))

\* str.splitlines()
\* the pieces between line breaks, the piece after the last break included
\* (computed by halves, so that long texts need little depth)
RECURSIVE Pieces(_)
Pieces(s) ==
    IF s = <<>> THEN << <<>> >>
    ELSE IF Len(s) = 1 THEN (IF s[1] \in {CR, LF} THEN << <<>>, <<>> >> ELSE <<s>>)
    ELSE LET half == Len(s) \div 2
             a == Pieces(SubSeq(s, 1, half))
             b == Pieces(SubSeq(s, half + 1, Len(s)))
         IN  SubSeq(a, 1, Len(a) - 1) \o <<a[Len(a)] \o b[1]>> \o Tail(b)

\* the lines of cur followed by s, where cur is the line begun so far
SplitLines(s, cur) ==
    LET ps == Pieces(s)
        all == <<cur \o ps[1]>> \o Tail(ps)
    IN  IF all[Len(all)] = <<>> THEN SubSeq(all, 1, Len(all) - 1) ELSE all

RECURSIVE NonEmpty(_)
NonEmpty(ls) ==
    IF ls = <<>> THEN <<>>
    ELSE IF Head(ls) = <<>> THEN NonEmpty(Tail(ls))
    ELSE <<Head(ls)>> \o NonEmpty(Tail(ls))

\* _extract_text: strip every line, drop the empty ones, join with "\n"
\* (the join leaves no run of newlines for the final re.sub to shorten)
_extract_text(html) ==
    LET lines == SplitLines(GetText(html), <<>>)
        stripped == [i \in 1..Len(lines) |-> Strip(lines[i])]
    IN  Join(NonEmpty(stripped), <<LF>>)

\* what requests.get + raise_for_status can give
Responses == {[ok |-> FALSE, html |-> <<>>]} \cup {[ok |-> TRUE, html |-> h] : h \in Pages}

\* datetime.utcnow() at the moment of a store
Times == {[sec |-> 1, micro |-> 0], [sec |-> 1, micro |-> 7]}

(***************************************************************************)
(* fetch_legal_source (legal_retriever.py)                                  *)
(***************************************************************************)
FetchReturn(outcome, net, wrote, snap, c) ==
    [outcome |-> outcome, net |-> net, wrote |-> wrote, snap |-> snap, cache |-> c]

\* A plausible slip: the cache is consulted before the whitelist
fetch_cache_first(url, force_refresh, wl, c, resp, now) ==
    LET cached == IF force_refresh THEN None ELSE get_source_by_url(c, url)
    IN  IF cached # None THEN FetchReturn("cached", 0, FALSE, cached, c)
        ELSE IF ~is_domain_whitelisted(url, wl)
        THEN FetchReturn("DomainNotAllowed", 0, FALSE, None, c)
        ELSE IF ~resp.ok THEN FetchReturn("FetchError", 1, FALSE, None, c)
        ELSE LET text == _extract_text(resp.html)
                 title == PageTitle(resp.html)
             IN  FetchReturn("fresh", 1, TRUE,
                             Some(StoredSource(url, resp.html, text, title, now)),
                             store_source(c, url, resp.html, text, title, now))

\* A plausible slip: a forced fetch removes the old snapshot before the GET,
\* so a GET that fails leaves the directory empty
fetch_dropping_stale(url, force_refresh, wl, c, resp, now) ==
    IF ~is_domain_whitelisted(url, wl)
    THEN FetchReturn("DomainNotAllowed", 0, FALSE, None, c)
    ELSE LET cached == IF force_refresh THEN None ELSE get_source_by_url(c, url)
             dropped == IF force_refresh
                        THEN [c EXCEPT ![_get_cache_path(url)] = NoDir] ELSE c
         IN  IF cached # None THEN FetchReturn("cached", 0, FALSE, cached, c)
             ELSE IF ~resp.ok THEN FetchReturn("FetchError", 1, FALSE, None, dropped)
             ELSE LET text == _extract_text(resp.html)
                      title == PageTitle(resp.html)
                  IN  FetchReturn("fresh", 1, TRUE,
                                  Some(StoredSource(url, resp.html, text, title, now)),
                                  store_source(dropped, url, resp.html, text, title, now))

\* A plausible slip: the body is stored before the status is looked at
fetch_store_before_status(url, force_refresh, wl, c, resp, now) ==
    IF ~is_domain_whitelisted(url, wl)
    THEN FetchReturn("DomainNotAllowed", 0, FALSE, None, c)
    ELSE LET cached == IF force_refresh THEN None ELSE get_source_by_url(c, url)
             text == _extract_text(resp.html)
             title == PageTitle(resp.html)
         IN  IF cached # None THEN FetchReturn("cached", 0, FALSE, cached, c)
             ELSE IF ~resp.ok
             THEN FetchReturn("FetchError", 1, TRUE, None,
                              store_source(c, url, resp.html, text, title, now))
             ELSE FetchReturn("fresh", 1, TRUE,
                              Some(StoredSource(url, resp.html, text, title, now)),
                              store_source(c, url, resp.html, text, title, now))

\* the outcome of fetch_legal_source(url, force_refresh): the exception or
\* the source, the GETs issued, whether the cache was written, the cache after
fetch_legal_source(url, force_refresh, wl, c, resp, now) ==
    IF ~is_domain_whitelisted(url, wl)
    THEN FetchReturn("DomainNotAllowed", 0, FALSE, None, c)
    ELSE LET cached == IF force_refresh THEN None ELSE get_source_by_url(c, url)
         IN  IF cached # None THEN FetchReturn("cached", 0, FALSE, cached, c)
             ELSE IF ~resp.ok THEN FetchReturn("FetchError", 1, FALSE, None, c)
             ELSE LET text == _extract_text(resp.html)
                      title == PageTitle(resp.html)
                  IN  FetchReturn("fresh", 1, TRUE,
                                  Some(StoredSource(url, resp.html, text, title, now)),
                                  store_source(c, url, resp.html, text, title, now))

(***************************************************************************)
(* The citation validator (citation_validator.py)                           *)
(***************************************************************************)
\* re.sub(r'\s+', ' ', text.strip().lower())
_normalize_whitespace(text) == CollapseWs(Lower(Strip(text)))

MinFuzzyWords == 3
ThresholdNum == 8
ThresholdDen == 10

\* sum(1 for e, w in zip(excerpt_words, window) if e == w), window at offset i
WindowMatches(excerpt_words, source_words, i) ==
    Cardinality({j \in 1..Len(excerpt_words) : excerpt_words[j] = source_words[i + j]})

\* A plausible slip: the similarity must exceed the threshold (> for >=)
_fuzzy_excerpt_match_strict(excerpt, source_text) ==
    LET excerpt_words == Split(_normalize_whitespace(excerpt))
        source_words == Split(_normalize_whitespace(source_text))
        window_size == Len(excerpt_words)
    IN  IF window_size < MinFuzzyWords THEN FALSE
        ELSE \E i \in 0..(Len(source_words) - window_size) :
                WindowMatches(excerpt_words, source_words, i) * ThresholdDen
                    > ThresholdNum * window_size

_fuzzy_excerpt_match(excerpt, source_text) ==
    LET excerpt_words == Split(_normalize_whitespace(excerpt))
        source_words == Split(_normalize_whitespace(source_text))
        window_size == Len(excerpt_words)
    IN  IF window_size < MinFuzzyWords THEN FALSE
        ELSE \E i \in 0..(Len(source_words) - window_size) :
                WindowMatches(excerpt_words, source_words, i) * ThresholdDen
                    >= ThresholdNum * window_size

\* the excerpt test shared by validate_legal_citation and validate_client_citation:
\* normalized substring, else the fuzzy match
ExcerptFound(excerpt, source_text) ==
    \/ Contains(_normalize_whitespace(source_text), _normalize_whitespace(excerpt))
    \/ _fuzzy_excerpt_match(excerpt, source_text)

Verdict(ok, reason) == [ok |-> ok, reason |-> reason]

\* A plausible slip: the whitelist check runs before the URL check
validate_legal_citation_swapped(citation, c, wl) ==
    LET source == get_source(c, citation.id)
    IN  IF source = None THEN Verdict(FALSE, "Unknown citation ID")
        ELSE IF ~is_whitelisted(source[1].url, wl)
        THEN Verdict(FALSE, "Domain not whitelisted")
        ELSE IF citation.url # <<>> /\ citation.url # source[1].url
        THEN Verdict(FALSE, "URL mismatch")
        ELSE IF citation.excerpt = <<>> THEN Verdict(FALSE, "Citation has no excerpt")
        ELSE IF ~ExcerptFound(citation.excerpt, source[1].text)
        THEN Verdict(FALSE, "Excerpt not found in source text")
        ELSE Verdict(TRUE, "Valid")

\* A plausible slip: the validator trusts the cache and skips the whitelist
validate_legal_citation_trusting(citation, c, wl) ==
    LET source == get_source(c, citation.id)
    IN  IF source = None THEN Verdict(FALSE, "Unknown citation ID")
        ELSE IF citation.url # <<>> /\ citation.url # source[1].url
        THEN Verdict(FALSE, "URL mismatch")
        ELSE IF citation.excerpt = <<>> THEN Verdict(FALSE, "Citation has no excerpt")
        ELSE IF ~ExcerptFound(citation.excerpt, source[1].text)
        THEN Verdict(FALSE, "Excerpt not found in source text")
        ELSE Verdict(TRUE, "Valid")

validate_legal_citation(citation, c, wl) ==
    LET source == get_source(c, citation.id)
    IN  IF source = None THEN Verdict(FALSE, "Unknown citation ID")
        ELSE IF citation.url # <<>> /\ citation.url # source[1].url
        THEN Verdict(FALSE, "URL mismatch")
        ELSE IF ~is_whitelisted(source[1].url, wl)
        THEN Verdict(FALSE, "Domain not whitelisted")
        ELSE IF citation.excerpt = <<>> THEN Verdict(FALSE, "Citation has no excerpt")
        ELSE IF ~ExcerptFound(citation.excerpt, source[1].text)
        THEN Verdict(FALSE, "Excerpt not found in source text")
        ELSE Verdict(TRUE, "Valid")

\* Citation(id, source_type, url, file_name, page_num, excerpt); None is <<>>
Citation(id, source_type, url, file_name, page_num, excerpt) ==
    [id |-> id, source_type |-> source_type, url |-> url, file_name |-> file_name,
     page_num |-> page_num, excerpt |-> excerpt]

NoCitation == Citation(<<>>, "", <<>>, <<>>, None, <<>>)

(***************************************************************************)
(* The fetcher and the validator at work on one cache: the callers issue   *)
(* fetches and validations, and the operator edits the whitelist.          *)
(***************************************************************************)
NoCall == [op |-> "none", url |-> <<>>, force |-> FALSE, outcome |-> "", net |-> 0,
           wrote |-> FALSE, snap |-> None, cit |-> NoCitation, ok |-> FALSE, reason |-> ""]

CitedIds == {_url_to_hash(U_gov), _url_to_hash(U_acas), UnknownId}
CitedUrls == {<<>>, U_gov, U_acas}
CitedExcerpts == {<<>>, <<SP>>, <<"A", LF, SP, "B">>, <<"b", SP, "a">>}

\* whether fetch_legal_source gets as far as requests.get
IssuesGet(url, force_refresh, wl, c) ==
    is_domain_whitelisted(url, wl) /\ (force_refresh \/ get_source_by_url(c, url) = None)

NoResponse == [ok |-> FALSE, html |-> <<>>]
Epoch == [sec |-> 1, micro |-> 0]

\* get_source_by_url and get_source called by themselves
LookupByUrl(url) ==
    /\ last' = [NoCall EXCEPT !.op = "get_by_url", !.url = url,
                              !.snap = get_source_by_url(cache, url)]
    /\ UNCHANGED <<cache, whitelist>>

LookupById(source_id) ==
    /\ last' = [NoCall EXCEPT !.op = "get", !.snap = get_source(cache, source_id)]
    /\ UNCHANGED <<cache, whitelist>>

\* pages whose text is as long as the excerpt limit, and one character longer
H_limit == [i \in 1..ExcerptLimit |-> "a"]
H_over == [i \in 1..(ExcerptLimit + 1) |-> "a"]
ExcerptPages == {H_plain, H_crlf, H_limit, H_over}
ExcerptUrls == {U_gov, U_acas}

\* how many entries the deployment may have dropped from the configured whitelist
MaxRemoved == 1

InitFetch ==
    /\ whitelist = WHITELIST_DOMAINS
    /\ cache = EmptyCache
    /\ last = NoCall

Fetch(url, force_refresh, resp, now) ==
    \E r \in {fetch_legal_source(url, force_refresh, whitelist, cache, resp, now)} :
        /\ cache' = r.cache
        /\ last' = [NoCall EXCEPT !.op = "fetch", !.url = url, !.force = force_refresh,
                                  !.outcome = r.outcome, !.net = r.net, !.wrote = r.wrote,
                                  !.snap = r.snap]
        /\ UNCHANGED whitelist

ValidateLegal(citation) ==
    \E v \in {validate_legal_citation(citation, cache, whitelist)} :
        /\ last' = [NoCall EXCEPT !.op = "validate", !.cit = citation, !.ok = v.ok,
                                  !.reason = v.reason]
        /\ UNCHANGED <<cache, whitelist>>

\* the deployment's whitelist loses an entry
RemoveDomain(i) ==
    /\ i \in 1..Len(whitelist)
    /\ Len(whitelist) > Len(WHITELIST_DOMAINS) - MaxRemoved
    /\ whitelist' = [j \in 1..(Len(whitelist) - 1) |->
                        IF j < i THEN whitelist[j] ELSE whitelist[j + 1]]
    /\ last' = [NoCall EXCEPT !.op = "config"]
    /\ UNCHANGED cache

\* the deployment returns to the configured whitelist
RestoreWhitelist ==
    /\ whitelist # WHITELIST_DOMAINS
    /\ whitelist' = WHITELIST_DOMAINS
    /\ last' = [NoCall EXCEPT !.op = "config"]
    /\ UNCHANGED cache

(***************************************************************************)
(* store_source and _load_source_from_path file by file                    *)
(* (legal_cache_service.py): a request that stores a snapshot runs beside  *)
(* a request that reads the cache, and a writer may stop between two file  *)
(* operations (the process is killed, a write raises).                     *)
(***************************************************************************)
NoJob == [url |-> <<>>, html |-> <<>>, text |-> <<>>, title |-> <<>>, now |-> Epoch]
NoBuf == [path |-> <<>>, meta |-> NoMeta, text |-> <<>>, had |-> FALSE]
NoObs == [done |-> FALSE, snap |-> None, had |-> FALSE]

StoreUrls == {U_gov}
StorePages == {H_plain, H_crlf}

\* what a reader loads from the files of a store_source that ran undisturbed
LoadedView(job) ==
    LoadedSource(MetaOf(job.url, job.text, job.title, job.now),
                 ReadTextMode(WriteTextMode(job.text)), ReadTextMode(WriteTextMode(job.html)))

WPath == _get_cache_path(wjob.url)

\* store_source is entered: domain, id, content hash and time are computed
BeginStore(url, html, now) ==
    /\ wpc = "idle"
    /\ wjob' = [url |-> url, html |-> html, text |-> _extract_text(html),
                title |-> PageTitle(html), now |-> now]
    /\ wlog' = wlog \cup {LoadedView(wjob')}
    /\ wpc' = "mkdir"
    /\ UNCHANGED <<cache, rpc, rbuf, robs, wdone>>

StoreMkdir ==
    /\ wpc = "mkdir"
    /\ cache' = MkDir(cache, WPath)
    /\ wpc' = "open_html"
    /\ UNCHANGED <<wjob, wlog, rpc, rbuf, robs, wdone>>

StoreOpenHtml ==
    /\ wpc = "open_html"
    /\ cache' = OpenHtml(cache, WPath)
    /\ wpc' = "write_html"
    /\ UNCHANGED <<wjob, wlog, rpc, rbuf, robs, wdone>>

StoreWriteHtml ==
    /\ wpc = "write_html"
    /\ cache' = WriteHtml(cache, WPath, wjob.html)
    /\ wpc' = "open_text"
    /\ UNCHANGED <<wjob, wlog, rpc, rbuf, robs, wdone>>

StoreOpenText ==
    /\ wpc = "open_text"
    /\ cache' = OpenText(cache, WPath)
    /\ wpc' = "write_text"
    /\ UNCHANGED <<wjob, wlog, rpc, rbuf, robs, wdone>>

StoreWriteText ==
    /\ wpc = "write_text"
    /\ cache' = WriteText(cache, WPath, wjob.text)
    /\ wpc' = "open_meta"
    /\ UNCHANGED <<wjob, wlog, rpc, rbuf, robs, wdone>>

StoreOpenMeta ==
    /\ wpc = "open_meta"
    /\ cache' = OpenMeta(cache, WPath)
    /\ wpc' = "write_meta"
    /\ UNCHANGED <<wjob, wlog, rpc, rbuf, robs, wdone>>

\* meta.json is written and store_source returns
StoreWriteMeta ==
    /\ wpc = "write_meta"
    /\ cache' = WriteMeta(cache, WPath, MetaOf(wjob.url, wjob.text, wjob.title, wjob.now))
    /\ wpc' = "idle"
    /\ wjob' = NoJob
    /\ wdone' = TRUE
    /\ UNCHANGED <<wlog, rpc, rbuf, robs>>

\* the writer stops part-way
StoreStops ==
    /\ wpc # "idle"
    /\ wpc' = "idle"
    /\ wjob' = NoJob
    /\ UNCHANGED <<cache, wlog, rpc, rbuf, robs, wdone>>

\* get_source_by_url: cache_path.exists(), then _load_source_from_path
BeginLoad(url) ==
    /\ rpc = "idle"
    /\ IF cache[_get_cache_path(url)].exists
       THEN /\ rpc' = "meta"
            /\ rbuf' = [NoBuf EXCEPT !.path = _get_cache_path(url), !.had = wdone]
            /\ robs' = NoObs
       ELSE /\ robs' = [done |-> TRUE, snap |-> None, had |-> wdone]
            /\ UNCHANGED <<rpc, rbuf>>
    /\ UNCHANGED <<cache, wpc, wjob, wlog, wdone>>

\* meta_path.exists() and json.load(meta.json); a JSONDecodeError gives None
LoadMeta ==
    /\ rpc = "meta"
    /\ IF cache[rbuf.path].meta = None \/ ~cache[rbuf.path].meta[1].parses
       THEN /\ robs' = [done |-> TRUE, snap |-> None, had |-> rbuf.had]
            /\ rpc' = "idle"
            /\ rbuf' = NoBuf
       ELSE /\ rbuf' = [rbuf EXCEPT !.meta = cache[rbuf.path].meta[1].obj]
            /\ rpc' = "text"
            /\ UNCHANGED robs
    /\ UNCHANGED <<cache, wpc, wjob, wlog, wdone>>

LoadText ==
    /\ rpc = "text"
    /\ rbuf' = [rbuf EXCEPT !.text = ReadFile(cache[rbuf.path].text)]
    /\ rpc' = "html"
    /\ UNCHANGED <<cache, robs, wpc, wjob, wlog, wdone>>

\* source.html is read and the LegalSource is returned
LoadHtml ==
    /\ rpc = "html"
    /\ robs' = [done |-> TRUE, had |-> rbuf.had,
                snap |-> Some(LoadedSource(rbuf.meta, rbuf.text, ReadFile(cache[rbuf.path].html)))]
    /\ rpc' = "idle"
    /\ rbuf' = NoBuf
    /\ UNCHANGED <<cache, wpc, wjob, wlog, wdone>>

(***************************************************************************)
(* The excerpt test on its own: an excerpt and a source text are drawn     *)
(* from word lists over a small vocabulary, written plainly or with mixed  *)
(* case and irregular white space.                                         *)
(***************************************************************************)
MaxExcerptWords == 5
MaxSourceWords == 5

Vocabulary == {<<"a">>, <<"b", "a">>}

WordLists(n) == UNION {[1..k -> Vocabulary] : k \in 0..n}

UpperChar(c) == CASE c = "a" -> "A" [] c = "b" -> "B" [] OTHER -> c

Plain(words) == Join(words, <<SP>>)

Messy(words) ==
    <<LF>> \o Join([k \in 1..Len(words) |-> [j \in 1..Len(words[k]) |-> UpperChar(words[k][j])]],
                   <<SP, "\t">>) \o <<SP>>

ExcerptInputs == {Plain(w) : w \in WordLists(MaxExcerptWords)} \cup {Messy(w) : w \in WordLists(MaxExcerptWords)}
SourceInputs == {Plain(w) : w \in WordLists(MaxSourceWords)} \cup {Messy(w) : w \in WordLists(MaxSourceWords)}

\* the excerpt test of a validator run on (ex, src)
Match ==
    /\ mres = "idle"
    /\ mres' = IF ExcerptFound(ex, src) THEN "found" ELSE "missing"
    /\ UNCHANGED <<ex, src>>

(***************************************************************************)
(* The chunk store of a case (document_index_service.py)                   *)
(***************************************************************************)
HasSlash(path) == \E i \in 1..Len(path) : path[i] = "/"

F_doc == <<"d", ".", "p", "d", "f">>
F_other == <<"x", ".", "p", "d", "f">>
Chunk1 == <<"c", "1">>
Chunk2 == <<"c", "2">>

\* index.json and raw_text/ after d.pdf was indexed: page 1 "a b a", page 2 "ba"
CaseStore ==
    [documents |-> (F_doc :> [chunk_ids |-> <<Chunk1, Chunk2>>]),
     chunks |-> (Chunk1 :> [page_num |-> Some(1)] @@ Chunk2 :> [page_num |-> Some(2)]),
     raw_text |-> (Chunk1 :> <<"a", SP, "b", SP, "a">> @@ Chunk2 :> <<"b", "a">>)]

\* the longest file name the file system takes
NameMax == 255

\* the last component of a relative path
RECURSIVE FileNameOf(_)
FileNameOf(path) ==
    IF HasSlash(path) THEN FileNameOf(Tail(path)) ELSE path

\* text_path.exists() on a name the file system refuses: pathlib passes the
\* OSError (ENAMETOOLONG) on, or answers False, depending on the Python version
ChunkPathRefused(chunk_id) == Len(FileNameOf(chunk_id \o <<".", "t", "x", "t">>)) > NameMax

\* the text of raw_text/<chunk_id>.txt, None when there is no such file
get_chunk_text(st, chunk_id) ==
    IF chunk_id \in DOMAIN st.raw_text THEN Some(ReadTextMode(st.raw_text[chunk_id])) ELSE None

\* the texts of the document's chunks, filtered by page, joined by a blank line
RECURSIVE RawTexts(_, _, _)
RawTexts(st, chunk_ids, page_num) ==
    IF chunk_ids = <<>> THEN <<>>
    ELSE LET chunk_id == Head(chunk_ids)
             page == IF chunk_id \in DOMAIN st.chunks THEN st.chunks[chunk_id].page_num ELSE None
             text == get_chunk_text(st, chunk_id)
             rest == RawTexts(st, Tail(chunk_ids), page_num)
         IN  IF page_num # None /\ page # page_num THEN rest
             ELSE IF text # None /\ text[1] # <<>> THEN <<text[1]>> \o rest
             ELSE rest

get_raw_text(st, file_name, page_num) ==
    IF file_name \notin DOMAIN st.documents THEN None
    ELSE LET texts == RawTexts(st, st.documents[file_name].chunk_ids, page_num)
         IN  IF texts = <<>> THEN None ELSE Some(Join(texts, <<LF, LF>>))

(***************************************************************************)
(* validate_client_citation .. all_citations_valid (citation_validator.py) *)
(***************************************************************************)
validate_client_citation(citation, st) ==
    IF citation.file_name = <<>> THEN Verdict(FALSE, "Client citation has no file_name")
    ELSE LET by_id == IF citation.id # <<>> THEN get_chunk_text(st, citation.id) ELSE None
             chunk_text == IF by_id = None
                           THEN get_raw_text(st, citation.file_name, citation.page_num)
                           ELSE by_id
         IN  IF chunk_text = None THEN Verdict(FALSE, "Source document not found")
             ELSE IF citation.excerpt = <<>> THEN Verdict(FALSE, "Citation has no excerpt")
             ELSE IF ~ExcerptFound(citation.excerpt, chunk_text[1])
             THEN Verdict(FALSE, "Excerpt not found in")
             ELSE Verdict(TRUE, "Valid")

\* whether the chunk lookup of validate_client_citation can end in an OSError
ClientLookupMayRaise(citation) ==
    /\ citation.source_type = "client"
    /\ citation.file_name # <<>>
    /\ citation.id # <<>>
    /\ ChunkPathRefused(citation.id)

validate_citation(citation, st, c, wl) ==
    IF citation.source_type = "legal" THEN validate_legal_citation(citation, c, wl)
    ELSE IF citation.source_type = "client" THEN validate_client_citation(citation, st)
    ELSE Verdict(FALSE, "Unknown source type")

\* one "<source_desc>: <reason>" entry of the errors list
ErrorEntry(source_desc, reason) == [source_desc |-> source_desc, reason |-> reason]

RECURSIVE ErrorsOf(_, _, _, _)
ErrorsOf(cits, st, c, wl) ==
    IF cits = <<>> THEN <<>>
    ELSE LET citation == Head(cits)
             v == validate_citation(citation, st, c, wl)
             source_desc == IF citation.source_type = "legal" THEN citation.url
                            ELSE citation.file_name
         IN  (IF v.ok THEN <<>> ELSE <<ErrorEntry(source_desc, v.reason)>>)
                 \o ErrorsOf(Tail(cits), st, c, wl)

all_citations_valid(cits, st, c, wl) ==
    LET errors == ErrorsOf(cits, st, c, wl)
    IN  [all_valid |-> errors = <<>>, errors |-> errors]

(***************************************************************************)
(* The LLM's answer and _parse_citations (answer_engine.py).  An answer is *)
(* a sequence of segments: prose, or a marker  [Source: <inner>] "<quote>" *)
(* where <inner> is a location, with  ", page <n>"  after it when the      *)
(* marker names a page.  A location of the model that holds a comma is not *)
(* followed by "page <n>" after that comma.                                *)
(***************************************************************************)
\* the quotation marks: straight, and the curly pair
DQ == "\""
LDQ == "left-curly-quote"
RDQ == "right-curly-quote"

\* the character class ["""] of both patterns, as the source file has it
QuoteClass == {DQ, DQ, DQ}

Prose(text) ==
    [kind |-> "prose", loc |-> <<>>, page |-> None, quote |-> text, open |-> "", close |-> ""]
Marker(loc, page, quote) ==
    [kind |-> "marker", loc |-> loc, page |-> page, quote |-> quote, open |-> DQ, close |-> DQ]

\* the text between "[Source:" and "]"
Inner(seg) ==
    IF seg.page = None THEN seg.loc
    ELSE seg.loc \o <<",", SP, "p", "a", "g", "e", SP, ToString(seg.page[1])>>

HasChar(text, ch) == \E i \in 1..Len(text) : text[i] = ch

\* client_pattern: ([^\],]+?) then the optional page clause, then a quoted text
ClientPatternMatches(seg) ==
    /\ seg.kind = "marker"
    /\ seg.loc # <<>>
    /\ ~HasChar(seg.loc, ",") /\ ~HasChar(seg.loc, "]")
    /\ seg.open \in QuoteClass /\ seg.close \in QuoteClass
    /\ seg.quote # <<>> /\ \A i \in 1..Len(seg.quote) : seg.quote[i] \notin QuoteClass

\* legal_pattern: (https?://[^\]]+) then a quoted text
LegalPatternMatches(seg) ==
    /\ seg.kind = "marker"
    /\ \/ StartsWith(LStrip(Inner(seg)), <<"h","t","t","p",":","/","/">>)
       \/ StartsWith(LStrip(Inner(seg)), S_https)
    /\ ~HasChar(Inner(seg), "]")
    /\ seg.open \in QuoteClass /\ seg.close \in QuoteClass
    /\ seg.quote # <<>> /\ \A i \in 1..Len(seg.quote) : seg.quote[i] \notin QuoteClass

\* f"{file_name}_{page_num or 0}"
ClientId(file_name, page_num) ==
    file_name \o <<"_", ToString(IF page_num = None THEN 0 ELSE page_num[1])>>

RECURSIVE ClientCitations(_)
ClientCitations(segs) ==
    IF segs = <<>> THEN <<>>
    ELSE LET seg == Head(segs)
             file_name == Strip(seg.loc)
         IN  (IF ClientPatternMatches(seg)
              THEN <<Citation(ClientId(file_name, seg.page), "client", <<>>, file_name,
                              seg.page, Strip(seg.quote))>>
              ELSE <<>>) \o ClientCitations(Tail(segs))

\* the id of the first handed source with that URL; None when there is none
RECURSIVE SourceIdFor(_, _)
SourceIdFor(url, legal_sources) ==
    IF legal_sources = <<>> THEN None
    ELSE IF Head(legal_sources).url = url THEN Some(Head(legal_sources).id)
    ELSE SourceIdFor(url, Tail(legal_sources))

RECURSIVE LegalCitations(_, _)
LegalCitations(segs, legal_sources) ==
    IF segs = <<>> THEN <<>>
    ELSE LET seg == Head(segs)
             url == Strip(Inner(seg))
             source_id == SourceIdFor(url, legal_sources)
         IN  (IF LegalPatternMatches(seg) /\ source_id # None /\ source_id[1] # <<>>
              THEN <<Citation(source_id[1], "legal", url, <<>>, None, Strip(seg.quote))>>
              ELSE <<>>) \o LegalCitations(Tail(segs), legal_sources)

_parse_citations(response_text, legal_sources) ==
    ClientCitations(response_text) \o LegalCitations(response_text, legal_sources)

(***************************************************************************)
(* session.json (session_manager.py)                                       *)
(***************************************************************************)
FactsKept == 20
FactChars == 200
FactsPerTurn == 5

NewSession == [retrieved_facts |-> <<>>, legal_sources_used |-> <<>>, turn_count |-> 0]

\* seq[-n:]
LastN(seq, n) == IF Len(seq) <= n THEN seq ELSE SubSeq(seq, Len(seq) - n + 1, Len(seq))

\* seq[:n]
FirstN(seq, n) == IF Len(seq) <= n THEN seq ELSE SubSeq(seq, 1, n)

\* the ids appended: those not among the ids the session held on entry
RECURSIVE NewIds(_, _)
NewIds(legal_source_ids, existing) ==
    IF legal_source_ids = <<>> THEN <<>>
    ELSE (IF Head(legal_source_ids) \in existing THEN <<>> ELSE <<Head(legal_source_ids)>>)
             \o NewIds(Tail(legal_source_ids), existing)

update_session_with_turn(state, retrieved_facts, legal_source_ids) ==
    [retrieved_facts |-> LastN(state.retrieved_facts \o retrieved_facts, FactsKept),
     legal_sources_used |->
         state.legal_sources_used
             \o NewIds(legal_source_ids,
                       {state.legal_sources_used[i] : i \in 1..Len(state.legal_sources_used)}),
     turn_count |-> state.turn_count + 1]

\* A plausible slip: the turn is not recorded
_update_session_skipped(state, client_evidence, legal_sources) == state

\* _update_session: the facts and ids of the turn, handed to the session manager
_update_session(state, client_evidence, legal_sources) ==
    update_session_with_turn(
        state,
        [i \in 1..Len(FirstN(client_evidence, FactsPerTurn)) |->
            FirstN(client_evidence[i].text, FactChars)],
        [i \in 1..Len(legal_sources) |-> legal_sources[i].id])

(***************************************************************************)
(* generate_answer (answer_engine.py): retrieval, then the loop of LLM     *)
(* call, citation parsing and validation.                                  *)
(***************************************************************************)
\* config.MAX_CITATION_RETRIES
MAX_CITATION_RETRIES == 2

\* the suffix of the failure return, one segment of prose
WarningSuffix == Prose(<<LF, LF, "Warning: Some citations could not be verified.">>)

NoCitationsError == ErrorEntry(<<>>, "No citations found despite available evidence.")

AnswerResponse(answer, client_evidence, legal_sources, cits, citations_valid, errors) ==
    [answer |-> answer, client_evidence |-> client_evidence, legal_sources |-> legal_sources,
     citations |-> cits, citations_valid |-> citations_valid, validation_errors |-> errors]

NoAnswer == AnswerResponse(<<>>, <<>>, <<>>, <<>>, FALSE, <<>>)
NoPrompt == [stricter |-> FALSE, errors |-> <<>>]
NoEnv == [client_evidence |-> <<>>, legal_sources |-> <<>>, evidence_present |-> FALSE,
          session_before |-> NewSession]

\* A plausible slip: only the first retry gets the stricter prompt
PromptFor_first_retry_only(n, errors) ==
    IF n = 1 /\ errors # <<>> THEN [stricter |-> TRUE, errors |-> errors] ELSE NoPrompt

\* the system prompt, or _build_stricter_prompt(system_prompt, validation_errors)
PromptFor(n, errors) ==
    IF n > 0 /\ errors # <<>> THEN [stricter |-> TRUE, errors |-> errors] ELSE NoPrompt

\* A plausible slip: an answer without citations is accepted whatever the evidence
AttemptVerdict_unenforced(cits, evidence_present, st, c, wl) ==
    all_citations_valid(cits, st, c, wl)

\* A plausible slip: citations are demanded whether or not evidence was retrieved
AttemptVerdict_always_demanding(cits, evidence_present, st, c, wl) ==
    IF cits = <<>>
    THEN [all_valid |-> FALSE, errors |-> <<NoCitationsError>>]
    ELSE all_citations_valid(cits, st, c, wl)

\* citations are demanded when evidence is present; what was cited is validated
AttemptVerdict(cits, evidence_present, st, c, wl) ==
    IF evidence_present /\ cits = <<>>
    THEN [all_valid |-> FALSE, errors |-> <<NoCitationsError>>]
    ELSE all_citations_valid(cits, st, c, wl)

\* A plausible slip: one attempt too many
MoreAttempts_off_by_one(n) == n + 1 \in 0..(MAX_CITATION_RETRIES + 1)

\* for attempt in range(MAX_CITATION_RETRIES + 1): whether a next value exists
MoreAttempts(n) == n + 1 \in 0..MAX_CITATION_RETRIES

\* the return after the loop
FailureResponse(text, cits, errors, e) ==
    AnswerResponse(text \o <<WarningSuffix>>, e.client_evidence, e.legal_sources, cits,
                   FALSE, errors)

SuccessResponse(text, cits, e) ==
    AnswerResponse(text, e.client_evidence, e.legal_sources, cits, TRUE, <<>>)

\* Phase A: the session context is read, hybrid search and the legal retriever return
StartAnswer(client_evidence, legal_sources) ==
    /\ pc = "idle"
    /\ env' = [client_evidence |-> client_evidence, legal_sources |-> legal_sources,
               evidence_present |-> (client_evidence # <<>> \/ legal_sources # <<>>),
               session_before |-> session]
    /\ validation_errors' = <<>>
    /\ attempt' = 0
    /\ current_prompt' = NoPrompt
    /\ answer_text' = <<>>
    /\ citations' = <<>>
    /\ llm_calls' = 0
    /\ hist' = <<>>
    /\ response' = NoAnswer
    /\ exc' = ""
    /\ session_updates' = 0
    /\ pc' = "loop"
    /\ UNCHANGED <<store, session>>

\* the head of the loop body: the prompt is chosen and the completion requested
CallLLM ==
    /\ pc = "loop"
    /\ current_prompt' = PromptFor(attempt, validation_errors)
    /\ llm_calls' = llm_calls + 1
    /\ pc' = "waiting"
    /\ UNCHANGED <<store, session, env, attempt, validation_errors, answer_text, citations,
                   hist, response, exc, session_updates>>

\* whether validating the citations of an attempt can end in an exception
ValidationMayRaise(cits, evidence_present) ==
    /\ ~(evidence_present /\ cits = <<>>)
    /\ \E i \in 1..Len(cits) : ClientLookupMayRaise(cits[i])

\* the completion arrives: the rest of the loop body, up to the return, the
\* next round, or the exception that validation lets through
LLMReplies(text) ==
    /\ pc = "waiting"
    /\ \E cits \in {_parse_citations(text, env.legal_sources)} :
       \E raises \in (IF ValidationMayRaise(cits, env.evidence_present) THEN BOOLEAN ELSE {FALSE}) :
       \E v \in {AttemptVerdict(cits, env.evidence_present, store, cache, whitelist)} :
          /\ answer_text' = text
          /\ citations' = cits
          /\ IF raises
             THEN /\ pc' = "raised"
                  /\ exc' = "OSError"
                  /\ UNCHANGED <<attempt, validation_errors, hist, response, session,
                                 session_updates>>
             ELSE /\ UNCHANGED exc
                  /\ hist' = Append(hist, [answer |-> text, citations |-> cits,
                                           prompt |-> current_prompt,
                                           all_valid |-> v.all_valid, errors |-> v.errors])
                  /\ IF v.all_valid
                     THEN /\ session' = _update_session(session, env.client_evidence,
                                                        env.legal_sources)
                          /\ session_updates' = session_updates + 1
                          /\ response' = SuccessResponse(text, cits, env)
                          /\ pc' = "returned"
                          /\ UNCHANGED <<attempt, validation_errors>>
                     ELSE /\ validation_errors' = v.errors
                          /\ IF MoreAttempts(attempt)
                             THEN /\ attempt' = attempt + 1
                                  /\ pc' = "loop"
                                  /\ UNCHANGED response
                             ELSE /\ response' = FailureResponse(text, cits, v.errors, env)
                                  /\ pc' = "returned"
                                  /\ UNCHANGED attempt
                          /\ UNCHANGED <<session, session_updates>>
    /\ UNCHANGED <<store, env, current_prompt, llm_calls>>

\* the completion request raises; generate_answer does not catch it
LLMFails ==
    /\ pc = "waiting"
    /\ pc' = "raised"
    /\ exc' = "APIError"
    /\ UNCHANGED <<store, session, env, attempt, validation_errors, current_prompt,
                   answer_text, citations, llm_calls, hist, response, session_updates>>

\* the caller has the response or the exception; the engine is free for the next question
Finish ==
    /\ pc \in {"returned", "raised"}
    /\ pc' = "idle"
    /\ UNCHANGED <<store, session, env, attempt, validation_errors, current_prompt,
                   answer_text, citations, llm_calls, hist, response, exc, session_updates>>

\* the questions asked of one case
MaxTurns == 2

\* the snapshot cache the legal retriever has filled
AnswerCache ==
    store_source(store_source(EmptyCache, U_comma, H_plain, _extract_text(H_plain),
                              PageTitle(H_plain), Epoch),
                 U_gov, H_upper, _extract_text(H_upper), PageTitle(H_upper), Epoch)

S_comma == get_source_by_url(AnswerCache, U_comma)[1]
S_gov == get_source_by_url(AnswerCache, U_gov)[1]

\* what hybrid_search.search and get_legal_sources_for_query may return
SearchResult(st, chunk_id, file_name) ==
    [chunk_id |-> chunk_id, text |-> st.raw_text[chunk_id], file_name |-> file_name,
     page_num |-> st.chunks[chunk_id].page_num]

ClientEvidence == {<<>>, <<SearchResult(CaseStore, Chunk1, F_doc)>>}
LegalSources == {<<>>, <<S_comma>>, <<S_gov, S_comma>>}

\* a file name that, with "_0.txt" after it, is one character too long
F_long == [i \in 1..(NameMax - 5) |-> "n"]

\* what the LLM may answer
M_client_ok == Marker(F_doc, Some(1), <<"A", SP, SP, "b">>)
M_client_bad == Marker(F_doc, Some(2), <<"a", SP, "b">>)
M_client_unknown == Marker(F_other, None, <<"a">>)
M_client_long == Marker(F_long, None, <<"a">>)
M_legal_ok == Marker(U_comma, None, <<SP, "a", SP, "b">>)
M_legal_bad == Marker(U_comma, None, <<"b", SP, "b">>)
M_legal_gov == Marker(U_gov, None, <<"a">>)
P_text == Prose(<<"t">>)

Answers ==
    {<<P_text>>, <<P_text, M_client_ok>>, <<M_client_bad>>, <<M_client_unknown>>,
     <<M_legal_ok, P_text>>, <<M_legal_bad>>, <<M_legal_gov>>,
     <<M_client_ok, M_legal_ok>>, <<M_client_ok, M_client_bad>>, <<M_client_long>>}

(***************************************************************************)
(* Retrieval over a case's chunks (bm25_service.py, chroma_service.py,     *)
(* hybrid_search.py)                                                        *)
(***************************************************************************)
\* the characters of the model that \w matches
WordChars == {"a", "b", "c", "d", "e", "f", "g", "h", "i", "j", "k", "y", "z",
              "A", "B", "_"}

\* re.findall(r'\b\w+\b', text): the maximal runs of word characters
RECURSIVE FindWords(_, _)
FindWords(s, cur) ==
    IF s = <<>> THEN (IF cur = <<>> THEN <<>> ELSE <<cur>>)
    ELSE IF Head(s) \notin WordChars
         THEN (IF cur = <<>> THEN <<>> ELSE <<cur>>) \o FindWords(Tail(s), <<>>)
         ELSE FindWords(Tail(s), Append(cur, Head(s)))

_tokenize(text) == FindWords(Lower(text), <<>>)

\* the chunk texts of the model: ten words, nine of them with capitals and a
\* comma, nine of them and another, and two short ones
T_ten == <<"a", SP, "b", SP, "c", SP, "d", SP, "e", SP, "f", SP, "g", SP, "h", SP, "i", SP, "j">>
T_nine == <<"A", ",", "B", SP, "c", SP, "d", SP, "e", SP, "f", SP, "g", SP, "h", SP, "i">>
T_nine_k == <<"a", SP, "b", SP, "c", SP, "d", SP, "e", SP, "f", SP, "g", SP, "h", SP, "i", SP, "k">>
T_y == <<"y">>
T_z == <<"z", ".">>
SearchTexts == {T_ten, T_nine, T_nine_k, T_y, T_z}

\* _tokenize of the chunk texts, worked out once
TokenTable == [text \in SearchTexts |-> _tokenize(text)]

\* set(_tokenize(text))
TokenSet(text) ==
    LET tokens == IF text \in SearchTexts THEN TokenTable[text] ELSE _tokenize(text)
    IN  {tokens[i] : i \in 1..Len(tokens)}

\* scores are kept as exact fractions n/d with d > 0
Frac(n, d) == [n |-> n, d |-> d]
FZero == Frac(0, 1)
FOne == Frac(1, 1)
FHalf == Frac(1, 2)
FLess(x, y) == x.n * y.d < y.n * x.d
FEq(x, y) == x.n * y.d = y.n * x.d
FLeq(x, y) == x.n * y.d <= y.n * x.d
FAdd(x, y) == Frac(x.n * y.d + y.n * x.d, x.d * y.d)
FSub(x, y) == Frac(x.n * y.d - y.n * x.d, x.d * y.d)
FMul(x, y) == Frac(x.n * y.n, x.d * y.d)
\* x / y for y > 0
FDiv(x, y) == Frac(x.n * y.d, x.d * y.n)

\* a SearchResult: chunk id, text, score, and the provenance's file name
ScoredResult(chunk, score) ==
    [chunk_id |-> chunk.chunk_id, text |-> chunk.text, score |-> score,
     file_name |-> chunk.file_name]

\* list.sort(key=score, reverse=True): descending and stable
RECURSIVE InsertDesc(_, _)
InsertDesc(sorted, r) ==
    IF sorted = <<>> THEN <<r>>
    ELSE IF FLess(Head(sorted).score, r.score) THEN <<r>> \o sorted
    ELSE <<Head(sorted)>> \o InsertDesc(Tail(sorted), r)

RECURSIVE SortByScore(_)
SortByScore(results) ==
    IF results = <<>> THEN <<>>
    ELSE InsertDesc(SortByScore(SubSeq(results, 1, Len(results) - 1)), results[Len(results)])

\* doc_counts.get(file_name, 0) after the results kept so far
DocCount(kept, file_name) == Cardinality({i \in 1..Len(kept) : kept[i].file_name = file_name})

MAX_CHUNKS_PER_DOC == 3

\* the cap loop of search_keywords: stops once top_k * 2 results are kept
RECURSIVE CapLoop(_, _, _, _)
CapLoop(results, kept, max_per_doc, limit) ==
    IF results = <<>> THEN kept
    ELSE LET result == Head(results)
             filtered == IF DocCount(kept, result.file_name) < max_per_doc
                         THEN Append(kept, result) ELSE kept
         IN  IF Len(filtered) >= limit THEN filtered
             ELSE CapLoop(Tail(results), filtered, max_per_doc, limit)

\* the index entry of the case as build_index leaves it, scored for a query:
\* chunks in index order, bm25.get_scores(query_tokens) beside them
search_keywords(chunks, scores, top_k) ==
    IF chunks = <<>> THEN <<>>
    ELSE LET positive == SelectSeq([i \in 1..Len(chunks) |-> ScoredResult(chunks[i], Frac(scores[i], 1))],
                                   LAMBDA r : r.score.n > 0)
             filtered_results == CapLoop(SortByScore(positive), <<>>, MAX_CHUNKS_PER_DOC, top_k * 2)
         IN  FirstN(filtered_results, top_k)

\* collection.query: the n_results nearest, nearest first; score = 1 / (1 + distance)
search_similar(chunks, distances, top_k) ==
    IF chunks = <<>> THEN <<>>
    ELSE LET n_results == IF top_k < Len(chunks) THEN top_k ELSE Len(chunks)
             scored == [i \in 1..Len(chunks) |-> ScoredResult(chunks[i], Frac(1, 1 + distances[i]))]
         IN  FirstN(SortByScore(scored), n_results)

RECURSIVE FMin(_)
FMin(results) ==
    IF Len(results) = 1 THEN results[1].score
    ELSE LET rest == FMin(Tail(results))
         IN  IF FLess(rest, results[1].score) THEN rest ELSE results[1].score

RECURSIVE FMax(_)
FMax(results) ==
    IF Len(results) = 1 THEN results[1].score
    ELSE LET rest == FMax(Tail(results))
         IN  IF FLess(results[1].score, rest) THEN rest ELSE results[1].score

\* A plausible slip: the scores are fused as the two searches returned them
_normalize_scores_raw(results) == results

_normalize_scores(results) ==
    IF results = <<>> THEN results
    ELSE LET min_score == FMin(results)
             max_score == FMax(results)
             score_range == FSub(max_score, min_score)
         IN  IF score_range.n = 0
             THEN [i \in 1..Len(results) |->
                     [results[i] EXCEPT !.score = IF max_score.n > 0 THEN FOne ELSE FZero]]
             ELSE [i \in 1..Len(results) |->
                     [results[i] EXCEPT !.score = FDiv(FSub(@, min_score), score_range)]]

RECURSIVE _apply_doc_cap(_, _)
_apply_doc_cap(results, max_per_doc) ==
    IF results = <<>> THEN <<>>
    ELSE LET filtered == _apply_doc_cap(SubSeq(results, 1, Len(results) - 1), max_per_doc)
             result == results[Len(results)]
         IN  IF DocCount(filtered, result.file_name) < max_per_doc
             THEN Append(filtered, result) ELSE filtered

\* DEDUPE_SIMILARITY_THRESHOLD = 0.9, as a fraction
DedupeNum == 9
DedupeDen == 10

\* the test of dedupe_results on two texts: both token sets non-empty and
\* intersection / union >= similarity_threshold
IsDuplicate(text, other) ==
    LET result_tokens == TokenSet(text)
        existing_tokens == TokenSet(other)
    IN  /\ result_tokens # {} /\ existing_tokens # {}
        /\ Cardinality(result_tokens \cap existing_tokens) * DedupeDen
              >= DedupeNum * Cardinality(result_tokens \cup existing_tokens)

\* the same test on the chunk texts, worked out once
DuplicateTable == [pair \in SearchTexts \X SearchTexts |-> IsDuplicate(pair[1], pair[2])]

NearDuplicate(text, other) ==
    IF text \in SearchTexts /\ other \in SearchTexts
    THEN DuplicateTable[<<text, other>>] ELSE IsDuplicate(text, other)

\* A plausible slip: a result is compared with its predecessor only
RECURSIVE dedupe_results_adjacent(_)
dedupe_results_adjacent(results) ==
    IF Len(results) <= 1 THEN results
    ELSE LET front == SubSeq(results, 1, Len(results) - 1)
             result == results[Len(results)]
         IN  IF NearDuplicate(result.text, front[Len(front)].text)
             THEN dedupe_results_adjacent(front)
             ELSE Append(dedupe_results_adjacent(front), result)

RECURSIVE dedupe_results(_)
dedupe_results(results) ==
    IF Len(results) <= 1 THEN results
    ELSE LET deduped == dedupe_results(SubSeq(results, 1, Len(results) - 1))
             result == results[Len(results)]
         IN  IF \E i \in 1..Len(deduped) : NearDuplicate(result.text, deduped[i].text)
             THEN deduped ELSE Append(deduped, result)

\* chunk_scores[chunk_id][side], 0 when the side did not return the chunk
SideScore(results, chunk_id) ==
    IF \E i \in 1..Len(results) : results[i].chunk_id = chunk_id
    THEN results[CHOOSE i \in 1..Len(results) : results[i].chunk_id = chunk_id].score
    ELSE FZero

\* A plausible slip: a chunk both sides returned is kept once per side
Merged_keeping_both(bm25_results, vector_results) == bm25_results \o vector_results

\* merged: the lexical results, then the vector results not among them
Merged(bm25_results, vector_results) ==
    bm25_results \o
    SelectSeq(vector_results,
              LAMBDA r : \A i \in 1..Len(bm25_results) : bm25_results[i].chunk_id # r.chunk_id)

\* the list search() sorts: every merged chunk with its fused score
Fused(bm25_results, vector_results, bm25_weight, vector_weight) ==
    LET merged == Merged(bm25_results, vector_results)
    IN  [i \in 1..Len(merged) |->
            [merged[i] EXCEPT !.score =
                FAdd(FMul(bm25_weight, SideScore(bm25_results, merged[i].chunk_id)),
                     FMul(vector_weight, SideScore(vector_results, merged[i].chunk_id)))]]

\* hybrid_search.search with its default weights; ranked is the list before
\* the cap and the deduplication, results the list returned
search(chunks, scores, distances, top_k) ==
    LET fetch_k == top_k * 3
        bm25_results == _normalize_scores(search_keywords(chunks, scores, fetch_k))
        vector_results == _normalize_scores(search_similar(chunks, distances, fetch_k))
        fused_results == SortByScore(Fused(bm25_results, vector_results, FHalf, FHalf))
    IN  [ranked |-> fused_results,
         results |-> FirstN(dedupe_results(_apply_doc_cap(fused_results, MAX_CHUNKS_PER_DOC)), top_k)]

search_keyword_only(chunks, scores, top_k) ==
    LET results == search_keywords(chunks, scores, top_k * 2)
    IN  [ranked |-> results, results |-> FirstN(dedupe_results(results), top_k)]

search_vector_only(chunks, distances, top_k) ==
    LET results == search_similar(chunks, distances, top_k * 2)
    IN  [ranked |-> results,
         results |-> FirstN(dedupe_results(_apply_doc_cap(results, MAX_CHUNKS_PER_DOC)), top_k)]

\* the chunks of the case searched: four of d.pdf, no two of them
\* near-duplicates, and one of x.pdf that is a near-duplicate of two of them
SearchChunk(n, file_name, text) == [chunk_id |-> <<"k", n>>, file_name |-> file_name, text |-> text]

SearchChunks ==
    << SearchChunk("1", F_doc, T_ten), SearchChunk("2", F_other, T_nine),
       SearchChunk("3", F_doc, T_nine_k), SearchChunk("4", F_doc, T_y),
       SearchChunk("5", F_doc, T_z) >>

\* what bm25.get_scores and the collection may report for a chunk
RawScores == {0, 1, 2}
RawDistances == {0, 1}
MaxTopK == 5

NoQuery == [mode |-> "idle", top_k |-> 0]
NoRanking == [ranked |-> <<>>, results |-> <<>>]

SearchHybrid(top_k) ==
    /\ sq = NoQuery
    /\ sq' = [mode |-> "hybrid", top_k |-> top_k]
    /\ sres' = search(SearchChunks, bm25_scores, chroma_distances, top_k)
    /\ UNCHANGED <<bm25_scores, chroma_distances>>

SearchKeywordOnly(top_k) ==
    /\ sq = NoQuery
    /\ sq' = [mode |-> "keyword", top_k |-> top_k]
    /\ sres' = search_keyword_only(SearchChunks, bm25_scores, top_k)
    /\ UNCHANGED <<bm25_scores, chroma_distances>>

SearchVectorOnly(top_k) ==
    /\ sq = NoQuery
    /\ sq' = [mode |-> "vector", top_k |-> top_k]
    /\ sres' = search_vector_only(SearchChunks, chroma_distances, top_k)
    /\ UNCHANGED <<bm25_scores, chroma_distances>>

(***************************************************************************)
(* The documents of a case: upload, delete and what retrieval can return   *)
(* (main.py, document_index_service.py, chroma_service.py, bm25_service.py) *)
(***************************************************************************)
EmptyMap == [key \in {} |-> None]
WithoutKeys(map, keys) == [key \in DOMAIN map \ keys |-> map[key]]
ElementsOf(seq) == {seq[i] : i \in 1..Len(seq)}

\* the case directory, its collection and its entry in _indices: the
\* documents and chunks maps of document_index.json, the raw_text files, the
\* vectors by chunk id, the uploaded files, and the lexical index (None when
\* the case has no entry in _indices)
EmptyCase ==
    [documents |-> EmptyMap, chunks |-> EmptyMap, raw_text |-> EmptyMap,
     collection |-> EmptyMap, files |-> {}, index |-> None]

\* str(uuid.uuid4())[:8]: an id no earlier chunk has
DigitChars == <<"0", "1", "2", "3", "4", "5", "6", "7", "8", "9">>
ChunkIdOf(n) == <<"u", DigitChars[n + 1]>>

\* process_document: one chunk per piece of the content, each with a new id
process_document(file_name, content, first) ==
    [i \in 1..Len(content) |->
        [chunk_id |-> ChunkIdOf(first + i - 1), file_name |-> file_name,
         page_num |-> Some(i), text |-> content[i]]]

ChunkIds(chunks) == {chunks[i].chunk_id : i \in 1..Len(chunks)}
ChunkWithId(chunks, chunk_id) == chunks[CHOOSE i \in 1..Len(chunks) : chunks[i].chunk_id = chunk_id]

index_document(k, file_name, chunks) ==
    [k EXCEPT
        !.chunks = [id \in ChunkIds(chunks) |->
                       [file_name |-> ChunkWithId(chunks, id).file_name,
                        page_num |-> ChunkWithId(chunks, id).page_num]] @@ @,
        !.raw_text = [id \in ChunkIds(chunks) |-> WriteTextMode(ChunkWithId(chunks, id).text)] @@ @,
        !.documents = (file_name :> [chunk_ids |-> [i \in 1..Len(chunks) |-> chunks[i].chunk_id]]) @@ @]

\* collection.add, reached when embed_batch returned
add_chunks(k, chunks) ==
    [k EXCEPT !.collection =
        [id \in ChunkIds(chunks) |->
            [file_name |-> ChunkWithId(chunks, id).file_name,
             text |-> ChunkWithId(chunks, id).text]] @@ @]

delete_chunks(k, chunk_ids) ==
    [k EXCEPT !.collection = WithoutKeys(@, ElementsOf(chunk_ids))]

delete_document(k, file_name) ==
    IF file_name \notin DOMAIN k.documents THEN k
    ELSE LET chunk_ids == ElementsOf(k.documents[file_name].chunk_ids)
         IN  [k EXCEPT !.chunks = WithoutKeys(@, chunk_ids),
                       !.raw_text = WithoutKeys(@, chunk_ids),
                       !.documents = WithoutKeys(@, {file_name})]

invalidate_index(k) == [k EXCEPT !.index = None]

\* what build_index stores: every id of the chunks map whose provenance and
\* text get_chunks_by_ids finds
IndexedChunks(k) ==
    {[chunk_id |-> id, file_name |-> k.chunks[id].file_name, text |-> get_chunk_text(k, id)[1]] :
        id \in {c \in DOMAIN k.chunks : get_chunk_text(k, c) # None /\ get_chunk_text(k, c)[1] # <<>>}}

build_index(k) == [k EXCEPT !.index = Some(IndexedChunks(k))]

_ensure_index(k) == IF k.index = None THEN build_index(k) ELSE k

\* every chunk a lexical query can return: the chunks of the index
KeywordHits(k) == IF k.index = None THEN {} ELSE k.index[1]

\* every chunk a vector query can return: the entries of the collection
VectorHits(k) ==
    {[chunk_id |-> id, file_name |-> k.collection[id].file_name, text |-> k.collection[id].text] :
        id \in DOMAIN k.collection}

\* merged: a chunk both sides return is taken from the lexical side
HybridHits(k) ==
    KeywordHits(k) \cup
    {r \in VectorHits(k) : \A b \in KeywordHits(k) : b.chunk_id # r.chunk_id}

Hits(k, mode) ==
    CASE mode = "keyword" -> KeywordHits(k)
      [] mode = "vector" -> VectorHits(k)
      [] mode = "hybrid" -> HybridHits(k)

\* the upload handler from the saved file on: the state it leaves, how it
\* ended and the chunks it made
upload_document(k, file_name, content, first, process_ok, embed_ok) ==
    LET saved == [k EXCEPT !.files = @ \cup {file_name}]
        chunks == process_document(file_name, content, first)
        indexed == index_document(saved, file_name, chunks)
    IN  IF ~process_ok
        THEN [kase |-> [k EXCEPT !.files = @ \ {file_name}], outcome |-> "ProcessingFailed",
              chunks |-> <<>>]
        ELSE IF ~embed_ok
        THEN [kase |-> indexed, outcome |-> "EmbeddingFailed", chunks |-> chunks]
        ELSE [kase |-> invalidate_index(add_chunks(indexed, chunks)), outcome |-> "ok",
              chunks |-> chunks]

\* the delete handler
delete_document_handler(k, file_name) ==
    LET chunk_ids == IF file_name \in DOMAIN k.documents
                     THEN k.documents[file_name].chunk_ids ELSE <<>>
        unlinked == [delete_document(delete_chunks(k, chunk_ids), file_name)
                        EXCEPT !.files = @ \ {file_name}]
    IN  invalidate_index(unlinked)

T_a == <<"a">>
T_b == <<"b", SP, "a">>
CaseFiles == {F_doc, F_other}
Contents == {<<T_a>>, <<T_b, T_a>>}
Modes == {"keyword", "vector", "hybrid"}
MaxUploads == 3
MaxChunksPerUpload == 2

\* what is kept of the case for a later comparison
Persisted(k) ==
    [documents |-> k.documents, chunks |-> k.chunks, raw_text |-> k.raw_text,
     collection |-> k.collection]

NoHandler ==
    [op |-> "none", file_name |-> <<>>, outcome |-> "", before |-> Persisted(EmptyCase),
     chunk_ids |-> {}, undoes |-> FALSE, mode |-> "", results |-> {}, completed |-> {},
     index_ids |-> {}]

NoUpload == [file_name |-> <<>>, chunks |-> <<>>]
NoSearch == [mode |-> "", completed |-> {}, built |-> {}]

IdleCase ==
    /\ kase = EmptyCase /\ clast = NoHandler /\ uploads = 0 /\ failed = FALSE
    /\ returned = {} /\ upc = "idle" /\ ujob = NoUpload /\ qpc = "idle" /\ qjob = NoSearch

UploadDocument(file_name, content, process_ok, embed_ok) ==
    /\ uploads < MaxUploads
    /\ \E r \in {upload_document(kase, file_name, content, uploads * MaxChunksPerUpload,
                                 process_ok, embed_ok)} :
          /\ kase' = r.kase
          /\ clast' = [NoHandler EXCEPT !.op = "upload", !.file_name = file_name,
                                        !.outcome = r.outcome, !.before = Persisted(kase),
                                        !.chunk_ids = ChunkIds(r.chunks)]
          /\ failed' = (failed \/ r.outcome # "ok")
          /\ returned' = IF r.outcome = "ok" THEN returned \cup ChunkIds(r.chunks) ELSE returned
    /\ uploads' = uploads + 1
    /\ UNCHANGED <<upc, ujob, qpc, qjob>>

DeleteDocument(file_name) ==
    /\ kase' = delete_document_handler(kase, file_name)
    /\ \E undoes \in {clast.op = "upload" /\ clast.outcome = "ok" /\ clast.file_name = file_name} :
          \* before: the case as it was before the upload this delete follows
          clast' = [NoHandler EXCEPT !.op = "delete", !.file_name = file_name, !.outcome = "ok",
                                     !.undoes = undoes,
                                     !.before = IF undoes THEN clast.before ELSE Persisted(kase)]
    /\ returned' = returned \ (IF file_name \in DOMAIN kase.documents
                               THEN ElementsOf(kase.documents[file_name].chunk_ids) ELSE {})
    /\ UNCHANGED <<uploads, failed, upc, ujob, qpc, qjob>>

\* a search of the case: the lexical side builds the index when there is none
Retrieve(mode) ==
    /\ \E k \in {IF mode = "vector" THEN kase ELSE _ensure_index(kase)} :
          /\ kase' = k
          /\ clast' = [NoHandler EXCEPT !.op = "retrieve", !.mode = mode,
                                        !.results = Hits(k, mode), !.completed = returned,
                                        !.index_ids = {r.chunk_id : r \in KeywordHits(k)}]
    /\ UNCHANGED <<uploads, failed, returned, upc, ujob, qpc, qjob>>

\* the same handlers step by step, for requests that overlap
UploadSave(file_name, content) ==
    /\ upc = "idle" /\ uploads < MaxUploads
    /\ kase' = [kase EXCEPT !.files = @ \cup {file_name}]
    /\ ujob' = [file_name |-> file_name,
                chunks |-> process_document(file_name, content, uploads * MaxChunksPerUpload)]
    /\ upc' = "processed" /\ uploads' = uploads + 1
    /\ UNCHANGED <<clast, failed, returned, qpc, qjob>>

UploadIndex ==
    /\ upc = "processed"
    /\ kase' = index_document(kase, ujob.file_name, ujob.chunks)
    /\ upc' = "indexed"
    /\ UNCHANGED <<clast, uploads, failed, returned, ujob, qpc, qjob>>

UploadEmbed ==
    /\ upc = "indexed"
    /\ kase' = add_chunks(kase, ujob.chunks)
    /\ upc' = "embedded"
    /\ UNCHANGED <<clast, uploads, failed, returned, ujob, qpc, qjob>>

UploadReturn ==
    /\ upc = "embedded"
    /\ kase' = invalidate_index(kase)
    /\ returned' = returned \cup ChunkIds(ujob.chunks)
    /\ clast' = [NoHandler EXCEPT !.op = "upload", !.file_name = ujob.file_name, !.outcome = "ok",
                                  !.chunk_ids = ChunkIds(ujob.chunks)]
    /\ upc' = "idle" /\ ujob' = NoUpload
    /\ UNCHANGED <<uploads, failed, qpc, qjob>>

\* search_keywords up to the test of _ensure_index
QueryBegin(mode) ==
    /\ qpc = "idle"
    /\ qjob' = [mode |-> mode, completed |-> returned, built |-> {}]
    /\ qpc' = IF kase.index = None THEN "build" ELSE "search"
    /\ UNCHANGED <<kase, clast, uploads, failed, returned, upc, ujob>>

\* build_index reads the chunk store
BuildRead ==
    /\ qpc = "build"
    /\ qjob' = [qjob EXCEPT !.built = IndexedChunks(kase)]
    /\ qpc' = "store"
    /\ UNCHANGED <<kase, clast, uploads, failed, returned, upc, ujob>>

\* build_index assigns _indices[case_id]
BuildStore ==
    /\ qpc = "store"
    /\ kase' = [kase EXCEPT !.index = Some(qjob.built)]
    /\ qpc' = "search"
    /\ UNCHANGED <<clast, uploads, failed, returned, upc, ujob, qjob>>

\* search_keywords from _indices.get(case_id) on, and the rest of the search
QueryAnswer ==
    /\ qpc = "search"
    /\ clast' = [NoHandler EXCEPT !.op = "retrieve", !.mode = qjob.mode,
                                  !.results = Hits(kase, qjob.mode),
                                  !.completed = qjob.completed,
                                  !.index_ids = {r.chunk_id : r \in KeywordHits(kase)}]
    /\ qpc' = "idle" /\ qjob' = NoSearch
    /\ UNCHANGED <<kase, uploads, failed, returned, upc, ujob>>

(***************************************************************************)
(* Several cases side by side: the collection of a case is looked up by    *)
(* name (chroma_service.py), its lexical index by case id (bm25_service.py) *)
(***************************************************************************)
\* the characters of the model for which str.isalnum() holds
AlnumChars == {"a", "b", "n", "x", "y", "0", "1"}

CollectionNameMax == 63

\* f"case_{safe_name}"[:63]
_get_collection_name(case_id) ==
    FirstN(<<"c", "a", "s", "e", "_">> \o
           [i \in 1..Len(case_id) |-> IF case_id[i] \in AlnumChars THEN case_id[i] ELSE "_"],
           CollectionNameMax)

\* case ids that validate_case_path accepts
Case_dash == <<"a", "-", "b">>
Case_underscore == <<"a", "_", "b">>
LongCase(ch) == [i \in 1..(CollectionNameMax - 5) |-> "n"] \o <<ch>>
TenantIds == {Case_dash, Case_underscore, LongCase("x"), LongCase("y")}
CollectionNames == {_get_collection_name(case_id) : case_id \in TenantIds}

MaxTenantUploads == 2

\* the case as its handlers see it: its own directory and _indices entry,
\* and the collection that get_or_create_collection returns for it
CaseView(ts, ps, case_id) ==
    [ts[case_id] EXCEPT !.collection = ps[_get_collection_name(case_id)]]

\* what a search of the case returns now, the lexical index built if need be
SearchOf(ts, ps, case_id, mode) == Hits(_ensure_index(CaseView(ts, ps, case_id)), mode)

NoTenantOp == [op |-> "none", case_id |-> <<>>, mode |-> "", results |-> {}]

IdleTenants ==
    /\ tenants = [case_id \in TenantIds |-> EmptyCase]
    /\ partitions = [name \in CollectionNames |-> EmptyMap]
    /\ tlast = NoTenantOp /\ tuploads = 0

\* the handler's result goes back to the case's directory and to its collection
PutBack(case_id, k) ==
    /\ tenants' = [tenants EXCEPT ![case_id] = [k EXCEPT !.collection = EmptyMap]]
    /\ partitions' = [partitions EXCEPT ![_get_collection_name(case_id)] = k.collection]

TenantUpload(case_id, file_name, content) ==
    /\ tuploads < MaxTenantUploads
    /\ PutBack(case_id, upload_document(CaseView(tenants, partitions, case_id), file_name, content,
                                        tuploads * MaxChunksPerUpload, TRUE, TRUE).kase)
    /\ tlast' = [NoTenantOp EXCEPT !.op = "upload", !.case_id = case_id]
    /\ tuploads' = tuploads + 1

TenantDelete(case_id, file_name) ==
    /\ PutBack(case_id, delete_document_handler(CaseView(tenants, partitions, case_id), file_name))
    /\ tlast' = [NoTenantOp EXCEPT !.op = "delete", !.case_id = case_id]
    /\ UNCHANGED tuploads

TenantRetrieve(case_id, mode) ==
    /\ \E k \in {IF mode = "vector" THEN CaseView(tenants, partitions, case_id)
                 ELSE _ensure_index(CaseView(tenants, partitions, case_id))} :
          /\ PutBack(case_id, k)
          /\ tlast' = [NoTenantOp EXCEPT !.op = "retrieve", !.case_id = case_id, !.mode = mode,
                                         !.results = Hits(k, mode)]
    /\ UNCHANGED tuploads

(***************************************************************************)
(* Case directories (path_validator.py)                                    *)
(***************************************************************************)
\* a path is the sequence of its components; config.CASES_DIR
CasesDir == << <<"s", "t", "o", "r", "a", "g", "e">>, <<"c", "a", "s", "e", "s">> >>
OutsideDir == << <<"e", "t", "c">> >>

IsUnder(path, base) == Len(path) >= Len(base) /\ SubSeq(path, 1, Len(base)) = base

\* the entries of CASES_DIR: directory, regular file, symbolic link, or none
NoEntry == [kind |-> "none", target |-> <<>>]
DirEntry == [kind |-> "dir", target |-> <<>>]
FileEntry == [kind |-> "file", target |-> <<>>]
LinkTo(target) == [kind |-> "symlink", target |-> target]

EntryAt(fs, path) ==
    IF Len(path) = Len(CasesDir) + 1 /\ IsUnder(path, CasesDir) /\ path[Len(path)] \in DOMAIN fs
    THEN fs[path[Len(path)]] ELSE NoEntry

\* Path.resolve(): a link is replaced by what it points to
Resolve(fs, path) ==
    IF EntryAt(fs, path).kind = "symlink" THEN EntryAt(fs, path).target ELSE path

PathExists(fs, path) == path = CasesDir \/ path = OutsideDir \/ EntryAt(fs, path).kind # "none"
PathIsSymlink(fs, path) == EntryAt(fs, path).kind = "symlink"
PathIsDir(fs, path) == path = CasesDir \/ path = OutsideDir \/ EntryAt(fs, path).kind = "dir"

PathResult(outcome, reason, path) == [outcome |-> outcome, reason |-> reason, path |-> path]
Refused(reason) == PathResult("PathValidationError", reason, <<>>)

\* A plausible slip: the test for a blank case id is left out
validate_case_path_blank(case_id, fs) ==
    IF Contains(case_id, <<".", ".">>) THEN Refused("traversal")
    ELSE IF HasChar(case_id, "/") \/ HasChar(case_id, "\\") THEN Refused("separator")
    ELSE IF StartsWith(case_id, <<".">>) THEN Refused("hidden")
    ELSE LET case_path == Resolve(fs, Append(CasesDir, case_id))
         IN  IF ~IsUnder(case_path, CasesDir) THEN Refused("escape")
             ELSE IF PathExists(fs, case_path) /\ PathIsSymlink(fs, case_path)
             THEN Refused("symlink")
             ELSE PathResult("ok", "", case_path)

validate_case_path(case_id, fs) ==
    IF Contains(case_id, <<".", ".">>) THEN Refused("traversal")
    ELSE IF HasChar(case_id, "/") \/ HasChar(case_id, "\\") THEN Refused("separator")
    ELSE IF StartsWith(case_id, <<".">>) THEN Refused("hidden")
    ELSE IF case_id = <<>> \/ Strip(case_id) = <<>> THEN Refused("empty")
    ELSE LET case_path == Resolve(fs, Append(CasesDir, case_id))
         IN  IF ~IsUnder(case_path, CasesDir) THEN Refused("escape")
             ELSE IF PathExists(fs, case_path) /\ PathIsSymlink(fs, case_path)
             THEN Refused("symlink")
             ELSE PathResult("ok", "", case_path)

ensure_case_exists(case_id, fs) ==
    LET checked == validate_case_path(case_id, fs)
    IN  IF checked.outcome # "ok" THEN checked
        ELSE IF ~PathExists(fs, checked.path) THEN Refused("not found")
        ELSE IF ~PathIsDir(fs, checked.path) THEN Refused("not a directory")
        ELSE checked

\* the case ids tried, and the names CASES_DIR may hold
Id_a == <<"a">>
Id_link == <<"l">>
CaseIdInputs ==
    {<<>>, <<SP>>, <<SP, LF>>, Id_a, Id_link, <<SP, "a">>, <<".", "a">>, <<".", ".">>,
     <<"a", ".", ".", "b">>, <<"a", "/", "b">>, <<"/", "a">>, <<"a", "\\", "b">>}
FsNames == {Id_a, Id_link, <<SP, "a">>}
LinkTargets == {Append(CasesDir, Id_a), OutsideDir, CasesDir}

\* the file each kind of operation opens in the case directory
CaseFileOf(kind) ==
    CASE kind = "document_index" -> <<"d", "o", "c", "u", "m", "e", "n", "t", "_", "i", "n", "d", "e", "x", ".", "j", "s", "o", "n">>
      [] kind = "session" -> <<"s", "e", "s", "s", "i", "o", "n", ".", "j", "s", "o", "n">>
      [] kind = "threads" -> <<"t", "h", "r", "e", "a", "d", "s", ".", "j", "s", "o", "n">>
CaseOperations == {"document_index", "session", "threads"}

NoPathCall == [op |-> "none", case_id |-> <<>>, outcome |-> "", reason |-> "", path |-> <<>>,
               touched |-> {}]

IdlePaths ==
    /\ cases_dir = [name \in FsNames |-> NoEntry]
    /\ plast = NoPathCall

\* POST /cases: the directory is made when the id is accepted and nothing is there
CreateCase(case_id) ==
    \E r \in {validate_case_path(case_id, cases_dir)} :
        /\ cases_dir' = IF /\ r.outcome = "ok" /\ ~PathExists(cases_dir, r.path)
                           /\ r.path[Len(r.path)] \in FsNames
                        THEN [cases_dir EXCEPT ![r.path[Len(r.path)]] = DirEntry]
                        ELSE cases_dir
        /\ plast' = [NoPathCall EXCEPT !.op = "create", !.case_id = case_id,
                                       !.outcome = r.outcome, !.reason = r.reason, !.path = r.path]

ValidateCasePath(case_id) ==
    \E r \in {validate_case_path(case_id, cases_dir)} :
        /\ plast' = [NoPathCall EXCEPT !.op = "validate", !.case_id = case_id,
                                       !.outcome = r.outcome, !.reason = r.reason, !.path = r.path]
        /\ UNCHANGED cases_dir

\* _load_index / load_session / _load_raw_threads and their writers: the
\* file is reached through ensure_case_exists
CaseOperation(kind, case_id) ==
    \E r \in {ensure_case_exists(case_id, cases_dir)} :
        /\ plast' = [NoPathCall EXCEPT !.op = kind, !.case_id = case_id,
                                       !.outcome = r.outcome, !.reason = r.reason, !.path = r.path,
                                       !.touched = IF r.outcome = "ok"
                                                   THEN {Append(r.path, CaseFileOf(kind))} ELSE {}]
        /\ UNCHANGED cases_dir

\* what someone with access to the storage directory may put there
PlaceEntry(name, entry) ==
    /\ cases_dir[name] = NoEntry
    /\ cases_dir' = [cases_dir EXCEPT ![name] = entry]
    /\ plast' = NoPathCall

RemoveEntry(name) ==
    /\ cases_dir[name] # NoEntry
    /\ cases_dir' = [cases_dir EXCEPT ![name] = NoEntry]
    /\ plast' = NoPathCall

(***************************************************************************)
(* File names within a case (path_validator.py, validate_file_path)        *)
(***************************************************************************)
\* case_path / file_name: joining the empty name gives the directory itself
JoinPath(dir, name) == IF name = <<>> THEN dir ELSE Append(dir, name)

\* the entry at a path directly under the case directory
FileEntryAt(fd, dir, path) ==
    IF Len(path) = Len(dir) + 1 /\ IsUnder(path, dir) /\ path[Len(path)] \in DOMAIN fd
    THEN fd[path[Len(path)]] ELSE NoEntry

ResolveFile(fd, dir, path) ==
    IF FileEntryAt(fd, dir, path).kind = "symlink" THEN FileEntryAt(fd, dir, path).target
    ELSE path

validate_file_path(case_id, file_name, fs, fd) ==
    LET checked == validate_case_path(case_id, fs)
    IN  IF checked.outcome # "ok" THEN checked
        ELSE IF HasChar(file_name, "/") \/ HasChar(file_name, "\\") THEN Refused("separator")
        ELSE IF Contains(file_name, <<".", ".">>) THEN Refused("traversal")
        ELSE IF StartsWith(file_name, <<".">>) THEN Refused("hidden")
        ELSE LET case_path == checked.path
                 file_path == ResolveFile(fd, case_path, JoinPath(case_path, file_name))
             IN  IF ~IsUnder(file_path, case_path) THEN Refused("escape")
                 ELSE IF /\ FileEntryAt(fd, case_path, file_path).kind # "none"
                         /\ FileEntryAt(fd, case_path, file_path).kind = "symlink"
                 THEN Refused("symlink")
                 ELSE PathResult("ok", "", file_path)

\* the file names tried, and the names the case directory may hold
N_doc == <<"d">>
N_link == <<"l">>
N_blank == <<SP>>
FileNameInputs ==
    {<<>>, N_blank, <<SP, LF>>, N_doc, N_link, <<".", "d">>, <<".", ".">>,
     <<"d", ".", ".", "e">>, <<"d", "/", "e">>, <<"d", "\\", "e">>}
FileFsNames == {N_doc, N_link, N_blank}
FileCaseIds == {Id_a, <<".", ".">>, <<>>}
FileLinkTargets ==
    {Append(Append(CasesDir, Id_a), N_doc), Append(CasesDir, Id_a), OutsideDir}

NoFileCall == [op |-> "none", case_id |-> <<>>, file_name |-> <<>>, outcome |-> "",
               reason |-> "", path |-> <<>>]

IdleFiles ==
    /\ case_dir = [name \in FileFsNames |-> NoEntry]
    /\ flast = NoFileCall

\* upload_document / delete_document obtain the file's path
ValidateFilePath(case_id, file_name) ==
    \E r \in {validate_file_path(case_id, file_name, cases_dir, case_dir)} :
        /\ flast' = [NoFileCall EXCEPT !.op = "validate", !.case_id = case_id,
                                       !.file_name = file_name, !.outcome = r.outcome,
                                       !.reason = r.reason, !.path = r.path]
        /\ UNCHANGED case_dir

\* what someone with access to the storage directory may put in the case
PlaceFile(name, entry) ==
    /\ case_dir[name] = NoEntry
    /\ case_dir' = [case_dir EXCEPT ![name] = entry]
    /\ flast' = NoFileCall

RemoveFile(name) ==
    /\ case_dir[name] # NoEntry
    /\ case_dir' = [case_dir EXCEPT ![name] = NoEntry]
    /\ flast' = NoFileCall

(***************************************************************************)
(* Validation of citations against a case on disk (citation_validator.py,  *)
(* document_index_service.py)                                              *)
(***************************************************************************)
\* a case directory that was created and holds nothing yet: there is no
\* raw_text directory in it
NewCaseOnDisk == [raw_dir |-> FALSE] @@ EmptyCase

\* _get_raw_text_dir: raw_dir.mkdir(exist_ok=True)
_get_raw_text_dir(k) == [k EXCEPT !.raw_dir = TRUE]

\* whether get_raw_text gets as far as get_chunk_text for some chunk
RawTextReadsChunk(st, file_name, page_num) ==
    /\ file_name \in DOMAIN st.documents
    /\ \E i \in 1..Len(st.documents[file_name].chunk_ids) :
          LET chunk_id == st.documents[file_name].chunk_ids[i]
              page == IF chunk_id \in DOMAIN st.chunks THEN st.chunks[chunk_id].page_num ELSE None
          IN  page_num = None \/ page = page_num

\* whether validate_citation calls get_chunk_text, and with it _get_raw_text_dir
CallsGetChunkText(citation, st) ==
    /\ citation.source_type = "client"
    /\ citation.file_name # <<>>
    /\ \/ citation.id # <<>>
       \/ RawTextReadsChunk(st, citation.file_name, citation.page_num)

\* the case directory after validate_all_citations
AfterValidation(cits, st) ==
    IF \E i \in 1..Len(cits) : CallsGetChunkText(cits[i], st) THEN _get_raw_text_dir(st) ELSE st

\* validate_all_citations: the verdict of each citation
validate_all_citations(cits, st, c, wl) ==
    [i \in 1..Len(cits) |-> validate_citation(cits[i], st, c, wl)]

\* the chunks whose text validate_client_citation compared the excerpt with
ResolvedChunks(citation, st) ==
    IF citation.id # <<>> /\ get_chunk_text(st, citation.id) # None THEN {citation.id}
    ELSE IF citation.file_name \notin DOMAIN st.documents THEN {}
    ELSE {chunk_id \in ElementsOf(st.documents[citation.file_name].chunk_ids) :
            /\ \/ citation.page_num = None
               \/ /\ chunk_id \in DOMAIN st.chunks
                  /\ st.chunks[chunk_id].page_num = citation.page_num
            /\ get_chunk_text(st, chunk_id) # None
            /\ get_chunk_text(st, chunk_id)[1] # <<>>}

\* the citations handed to the validator
Cit_file == Citation(ClientId(F_doc, Some(1)), "client", <<>>, F_doc, Some(1), T_a)
Cit_file_all == Citation(<<>>, "client", <<>>, F_doc, None, T_b)
Cit_chunk == Citation(ChunkIdOf(0), "client", <<>>, F_doc, Some(1), T_a)
Cit_chunk_other == Citation(ChunkIdOf(0), "client", <<>>, F_other, None, T_a)
Cit_chunk_page == Citation(ChunkIdOf(0), "client", <<>>, F_doc, Some(2), T_a)
Cit_legal == Citation(_url_to_hash(U_gov), "legal", U_gov, <<>>, None, <<"a">>)
CitationLists ==
    {<<Cit_file>>, <<Cit_file_all>>, <<Cit_chunk>>, <<Cit_chunk_other>>, <<Cit_chunk_page>>,
     <<Cit_legal>>, <<Cit_legal, Cit_file_all>>, <<Cit_file, Cit_chunk_other>>}

NoValidation == [op |-> "none", cits |-> <<>>, verdicts |-> <<>>]

IdleValidate == vcase = NewCaseOnDisk /\ vnext = 0 /\ vlast = NoValidation

\* an upload that went through: index_document makes the raw_text directory
StoreDocument(file_name, content) ==
    /\ vnext < MaxChunksPerUpload
    /\ vcase' = _get_raw_text_dir(upload_document(vcase, file_name, content, vnext, TRUE, TRUE).kase)
    /\ vnext' = vnext + Len(content)
    /\ vlast' = [NoValidation EXCEPT !.op = "upload"]

RemoveDocument(file_name) ==
    /\ vcase' = IF file_name \in DOMAIN vcase.documents
                THEN _get_raw_text_dir(delete_document_handler(vcase, file_name))
                ELSE delete_document_handler(vcase, file_name)
    /\ vlast' = [NoValidation EXCEPT !.op = "delete"]
    /\ UNCHANGED vnext

ValidateCitations(cits) ==
    /\ vlast' = [NoValidation EXCEPT !.op = "validate", !.cits = cits,
                    !.verdicts = validate_all_citations(cits, vcase, cache, whitelist)]
    /\ vcase' = AfterValidation(cits, vcase)
    /\ UNCHANGED vnext

(***************************************************************************)
(* Answers whose markers use curly quotes (answer_engine._parse_citations)  *)
(***************************************************************************)
\* the same answer with every marker's excerpt in curly quotes
Curly(text) ==
    [i \in 1..Len(text) |->
        IF text[i].kind = "marker" THEN [text[i] EXCEPT !.open = LDQ, !.close = RDQ]
        ELSE text[i]]

ParseSegments ==
    {P_text, M_client_ok, M_client_unknown, M_legal_ok, M_legal_gov,
     Marker(F_doc, None, <<"b">>)}
ParseTexts == {<<seg>> : seg \in ParseSegments} \cup {<<a, b>> : a, b \in ParseSegments}

NoParse == [op |-> "none", text |-> <<>>, legal_sources |-> <<>>, straight |-> <<>>, curly |-> <<>>]

IdleParse == parsed = NoParse

\* _parse_citations on an answer and on the same answer in curly quotes
ParseCitations(text, legal_sources) ==
    parsed' = [op |-> "parse", text |-> text, legal_sources |-> legal_sources,
               straight |-> _parse_citations(text, legal_sources),
               curly |-> _parse_citations(Curly(text), legal_sources)]

(***************************************************************************)
(* The delete handler step by step, with requests of other processes       *)
(* between its steps (main.delete_document,                                 *)
(* document_index_service.delete_document)                                  *)
(***************************************************************************)
NoDelete == [file_name |-> <<>>, chunk_ids |-> <<>>, left |-> <<>>,
             documents |-> EmptyMap, chunks |-> EmptyMap, found |-> FALSE]
NoSight == [kind |-> "none", during |-> FALSE, doc |-> {}, seen |-> {}, deleted |-> {},
            files |-> {}]

IdleDelete == dpc = "idle" /\ djob = NoDelete /\ ddone = {} /\ dobs = NoSight

\* the chunks a request saw, with what it is compared to: the chunks of the
\* document being deleted, and the files whose delete had returned
Sight(kind, hits) ==
    [kind |-> kind, during |-> dpc \in {"index", "file", "invalidate"},
     doc |-> ElementsOf(djob.chunk_ids),
     seen |-> {r.chunk_id : r \in hits}, deleted |-> ddone,
     files |-> {r.file_name : r \in hits}]

\* the chunks of a file as get_raw_text collects them
RawTextChunks(k, file_name) ==
    IF file_name \notin DOMAIN k.documents THEN {}
    ELSE {[chunk_id |-> id, file_name |-> file_name, text |-> get_chunk_text(k, id)[1]] :
            id \in {c \in ElementsOf(k.documents[file_name].chunk_ids) :
                       get_chunk_text(k, c) # None /\ get_chunk_text(k, c)[1] # <<>>}}

\* main.delete_document: validate_file_path, _load_index, the chunk ids
DeleteBegin(file_name) ==
    /\ dpc = "idle"
    /\ djob' = [NoDelete EXCEPT !.file_name = file_name,
                   !.chunk_ids = IF file_name \in DOMAIN kase.documents
                                 THEN kase.documents[file_name].chunk_ids ELSE <<>>]
    /\ dpc' = "vectors"
    /\ UNCHANGED <<kase, clast, uploads, failed, returned, upc, ujob, qpc, qjob, ddone, dobs>>

\* chroma_service.delete_chunks, then delete_document loads the index
DeleteVectors ==
    /\ dpc = "vectors"
    /\ kase' = delete_chunks(kase, djob.chunk_ids)
    /\ djob' = [djob EXCEPT !.found = djob.file_name \in DOMAIN kase.documents,
                            !.documents = kase.documents, !.chunks = kase.chunks,
                            !.left = IF djob.file_name \in DOMAIN kase.documents
                                     THEN kase.documents[djob.file_name].chunk_ids ELSE <<>>]
    /\ dpc' = IF djob.file_name \in DOMAIN kase.documents THEN "index" ELSE "file"
    /\ UNCHANGED <<clast, uploads, failed, returned, upc, ujob, qpc, qjob, ddone, dobs>>

\* one round of the loop: the entry leaves the loaded index, the raw text
\* file is unlinked
DeleteUnlink ==
    /\ dpc = "index" /\ djob.left # <<>>
    /\ kase' = [kase EXCEPT !.raw_text = WithoutKeys(@, {Head(djob.left)})]
    /\ djob' = [djob EXCEPT !.left = Tail(@), !.chunks = WithoutKeys(@, {Head(djob.left)})]
    /\ UNCHANGED <<dpc, clast, uploads, failed, returned, upc, ujob, qpc, qjob, ddone, dobs>>

\* the document entry leaves the loaded index; _save_index writes it
DeleteSaveIndex ==
    /\ dpc = "index" /\ djob.left = <<>>
    /\ kase' = [kase EXCEPT !.documents = WithoutKeys(djob.documents, {djob.file_name}),
                            !.chunks = djob.chunks]
    /\ dpc' = "file"
    /\ UNCHANGED <<djob, clast, uploads, failed, returned, upc, ujob, qpc, qjob, ddone, dobs>>

\* file_path.unlink()
DeleteFile ==
    /\ dpc = "file"
    /\ kase' = [kase EXCEPT !.files = @ \ {djob.file_name}]
    /\ dpc' = "invalidate"
    /\ UNCHANGED <<djob, clast, uploads, failed, returned, upc, ujob, qpc, qjob, ddone, dobs>>

\* bm25_service.invalidate_index in the process of the handler, and the return
DeleteReturn ==
    /\ dpc = "invalidate"
    /\ kase' = invalidate_index(kase)
    /\ ddone' = ddone \cup {djob.file_name}
    /\ dpc' = "idle" /\ djob' = NoDelete
    /\ clast' = [NoHandler EXCEPT !.op = "delete", !.file_name = djob.file_name, !.outcome = "ok"]
    /\ UNCHANGED <<uploads, failed, returned, upc, ujob, qpc, qjob, dobs>>

\* an upload that goes through, between two deletes
UploadBeside(file_name, content) ==
    /\ dpc = "idle" /\ uploads < MaxUploads - 1
    /\ UploadDocument(file_name, content, TRUE, TRUE)
    /\ ddone' = ddone \ {file_name}
    /\ UNCHANGED <<dpc, djob, dobs>>

\* a search of the case by another request
SearchBeside(mode) ==
    /\ Retrieve(mode)
    /\ dobs' = Sight("retrieve", Hits(IF mode = "vector" THEN kase ELSE _ensure_index(kase), mode))
    /\ UNCHANGED <<dpc, djob, ddone>>

\* a client citation of the file validated by another request: get_raw_text
ValidateBeside(file_name) ==
    /\ dobs' = Sight("validate", RawTextChunks(kase, file_name))
    /\ UNCHANGED <<caseVars, dpc, djob, ddone>>

(***************************************************************************)
(* The upload request from its first line (main.py upload_document)        *)
(***************************************************************************)
\* the position of the last "." of a name, 0 when it has none
LastDot(name) ==
    IF \A i \in 1..Len(name) : name[i] # "." THEN 0
    ELSE CHOOSE i \in 1..Len(name) :
            name[i] = "." /\ \A j \in (i + 1)..Len(name) : name[j] # "."

\* Path(name).suffix: the name from its last "." on; "" when that "." is the
\* first or the last character, or when there is none
PathSuffix(name) ==
    LET i == LastDot(name)
    IN  IF i > 1 /\ i < Len(name) THEN SubSeq(name, i, Len(name)) ELSE <<>>

\* document_processor.get_supported_extensions()
get_supported_extensions == {<<".", "p", "d", "f">>, <<".", "d", "o", "c", "x">>}

F_legacy == <<"d", ".", "d", "o", "c">>
F_text == <<"d", ".", "t", "x", "t">>
F_bare == <<"d">>
RequestFiles == {F_doc, F_other, F_legacy, F_text, F_bare}

NoRequest == [op |-> "none", file_name |-> <<>>, outcome |-> "", before |-> EmptyCase]
IdleRequest == ureq = NoRequest

\* POST /cases/{case_id}/upload: the extension test comes before anything is
\* written; a name that passes goes on to the save, processing and indexing
UploadRequest(file_name, content, process_ok, embed_ok) ==
    IF Lower(PathSuffix(file_name)) \notin get_supported_extensions
    THEN /\ ureq' = [NoRequest EXCEPT !.op = "upload", !.file_name = file_name,
                                      !.outcome = "UnsupportedType", !.before = kase]
         /\ UNCHANGED caseVars
    ELSE /\ UploadDocument(file_name, content, process_ok, embed_ok)
         /\ ureq' = [NoRequest EXCEPT !.op = "upload", !.file_name = file_name,
                                      !.outcome = clast'.outcome, !.before = kase]

\* the other requests of the case
DeleteRequest(file_name) == DeleteDocument(file_name) /\ ureq' = NoRequest
RetrieveRequest(mode) == Retrieve(mode) /\ ureq' = NoRequest

(***************************************************************************)
(* From a query to snapshots (legal_retriever.py: search_gov_uk,           *)
(* search_acas, search_citizens_advice, get_legal_sources_for_query).      *)
(* A search page is the outcome of its GET and the result items it holds;  *)
(* an item is the href of its first link, None when it has no link.        *)
(***************************************************************************)
MaxSearchResults == 2

HttpPrefix == <<"h","t","t","p">>

\* the part the three search helpers share: the first max_results items, the
\* items with an href kept, a relative href put behind the site's prefix
SearchResults(base, page, max_results) ==
    IF ~page.ok THEN <<>>
    ELSE LET items == SubSeq(page.items, 1, IF Len(page.items) < max_results THEN Len(page.items) ELSE max_results)
             Linked(item) == item # None /\ item[1] # <<>>
             kept == SelectSeq(items, Linked)
         IN  [i \in 1..Len(kept) |->
                 IF StartsWith(kept[i][1], HttpPrefix) THEN kept[i][1] ELSE base \o kept[i][1]]

search_gov_uk(page, max_results) == SearchResults(B_gov, page, max_results)
search_acas(page, max_results) == SearchResults(B_acas, page, max_results)
search_citizens_advice(page, max_results) == SearchResults(B_citizens, page, max_results)

\* the exceptions of fetch_legal_source
FetchExceptions == {"DomainNotAllowed", "FetchError"}

\* A plausible slip: only FetchError is caught
Caught_fetch_error_only(outcome) == outcome = "FetchError"

\* except (DomainNotAllowedError, FetchError)
Caught(outcome) == outcome \in {"DomainNotAllowed", "FetchError"}

\* one site's loop "for result in results", carried on from what the earlier
\* loops left: the list so far, the cache, each fetch made and how it ended
RECURSIVE FetchResults(_, _, _, _, _, _)
FetchResults(site, urls, down, wl, now, acc) ==
    IF urls = <<>> \/ acc.raised THEN acc
    ELSE LET url == Head(urls)
             resp == IF url \in down THEN [ok |-> FALSE, html |-> <<>>]
                     ELSE [ok |-> TRUE, html |-> H_plain]
             r == fetch_legal_source(url, FALSE, wl, acc.cache, resp, now)
             tried == Append(acc.tried, [site |-> site, url |-> url, outcome |-> r.outcome,
                                         snap |-> r.snap])
         IN  FetchResults(site, Tail(urls), down, wl, now,
                 IF r.outcome \in FetchExceptions
                 THEN [acc EXCEPT !.cache = r.cache, !.tried = tried,
                                  !.raised = ~Caught(r.outcome)]
                 ELSE [acc EXCEPT !.cache = r.cache, !.tried = tried,
                                  !.sources = Append(@, r.snap[1])])

get_legal_sources_for_query(pages, down, wl, c, now) ==
    LET gov_results == search_gov_uk(pages.gov, MaxSearchResults)
        acas_results == search_acas(pages.acas, MaxSearchResults)
        ca_results == search_citizens_advice(pages.citizens, MaxSearchResults)
        start == [sources |-> <<>>, cache |-> c, tried |-> <<>>, raised |-> FALSE]
        after_gov == FetchResults("gov", gov_results, down, wl, now, start)
        after_acas == FetchResults("acas", acas_results, down, wl, now, after_gov)
    IN  [result |-> FetchResults("citizens", ca_results, down, wl, now, after_acas),
         candidates |-> gov_results \o acas_results \o ca_results]

\* search pages: the GET failed; one relative link; an item without a link
\* before an absolute link and a third item; three links, the first to a
\* host outside the whitelist
P_failed == [ok |-> FALSE, items |-> <<>>]
P_one == [ok |-> TRUE, items |-> <<Some(H_rel)>>]
P_unlinked == [ok |-> TRUE, items |-> <<None, Some(U_acas), Some(H_rel)>>]
P_three == [ok |-> TRUE, items |-> <<Some(U_evil), Some(H_rel), Some(U_acas)>>]
Sites == {"gov", "acas", "citizens"}
PagesOf(g, a, c) == [gov |-> g, acas |-> a, citizens |-> c]
SearchOutcomes ==
    {PagesOf(P_failed, P_failed, P_failed), PagesOf(P_one, P_one, P_one),
     PagesOf(P_three, P_unlinked, P_failed), PagesOf(P_unlinked, P_three, P_one),
     PagesOf(P_failed, P_three, P_three), PagesOf(P_three, P_failed, P_unlinked)}
\* the candidates whose GET may fail
FailingUrls == {U_acas, U_gov_rel}

NoQueryCall ==
    [op |-> "none", pages |-> [gov |-> P_failed, acas |-> P_failed, citizens |-> P_failed],
     wl |-> <<>>, raised |-> FALSE, sources |-> <<>>, tried |-> <<>>, candidates |-> <<>>]
IdleQuery == glast = NoQueryCall

GetLegalSources(pages, down, now) ==
    \E r \in {get_legal_sources_for_query(pages, down, whitelist, cache, now)} :
        /\ cache' = r.result.cache
        /\ glast' = [op |-> "query", pages |-> pages, wl |-> whitelist,
                     raised |-> r.result.raised,
                     sources |-> IF r.result.raised THEN <<>> ELSE r.result.sources,
                     tried |-> r.result.tried, candidates |-> r.candidates]
        /\ UNCHANGED <<whitelist, last>>

(***************************************************************************)
(* The two whitelist tests side by side (legal_retriever.py                *)
(* is_domain_whitelisted, citation_validator.py check 3)                   *)
(***************************************************************************)
\* URLs with a port, with user information, and without a path
U_port == B_gov \o <<":", "4", "4", "3">> \o H_rel
U_user == S_https \o <<"x", "@">> \o D_gov \o H_rel
U_bare == S_https \o D_citizens
WhitelistUrls == {U_gov, U_acas, U_evil, U_evilgov, U_gov_rel, U_port, U_user, U_bare}

\* the whitelists a deployment may configure: the entries of
\* WHITELIST_DOMAINS, any of them, in any order
Whitelists ==
    {wl \in UNION {[1..n -> {D_acas, D_gov, D_citizens}] : n \in 0..3} :
        \A i, j \in 1..Len(wl) : wl[i] = wl[j] => i = j}

NoWhitelistCheck == [op |-> "none", url |-> <<>>, wl |-> <<>>, fetcher |-> FALSE, validator |-> FALSE]
IdleWhitelist == wlast = NoWhitelistCheck

\* one URL put to the fetcher's test and to the validator's test
CheckWhitelist(url, wl) ==
    wlast' = [op |-> "check", url |-> url, wl |-> wl,
              fetcher |-> is_domain_whitelisted(url, wl),
              validator |-> is_whitelisted(url, wl)]

(***************************************************************************)
(* Document processing (document_processor.py) and the provenance kept by  *)
(* the chunk store and the vector index (document_index_service.py,        *)
(* chroma_service.py).                                                      *)
(* A text is taken by its size: a page is its number of characters (after  *)
(* strip) and of words, a paragraph its number of words; 0 is a text that  *)
(* strip() leaves empty.                                                    *)
(***************************************************************************)
TargetWords == 500
OverlapWords == 80
GroupWords == 600
OCR_TEXT_THRESHOLD == 100

\* chunk_text, the loop "while start < len(words)": the sizes of the chunks
RECURSIVE ChunkSpans(_, _)
ChunkSpans(start, n) ==
    IF start >= n THEN <<>>
    ELSE LET end == IF start + TargetWords < n THEN start + TargetWords ELSE n
         IN  <<end - start>> \o ChunkSpans(IF end < n THEN end - OverlapWords ELSE n, n)

\* chunk_text(text, file_name, page_num, para_idx, ocr); group is the list of
\* paragraph indices the text was put together from
chunk_text(words, page_num, para_idx, ocr, group) ==
    LET spans == IF words <= TargetWords THEN <<words>> ELSE ChunkSpans(0, words)
    IN  [i \in 1..Len(spans) |->
            [words |-> spans[i], page_num |-> page_num, para_idx |-> para_idx, ocr |-> ocr,
             group |-> group]]

\* extract_pdf: (text, page_num) of the pages whose text is not blank
RECURSIVE extract_pdf(_, _)
extract_pdf(pages, page_num) ==
    IF pages = <<>> THEN <<>>
    ELSE (IF Head(pages).chars > 0 THEN <<[text |-> Head(pages), page_num |-> page_num]>> ELSE <<>>)
         \o extract_pdf(Tail(pages), page_num + 1)

\* extract_docx: (text, para_idx) of the paragraphs whose text is not blank
RECURSIVE extract_docx(_, _)
extract_docx(paras, para_idx) ==
    IF paras = <<>> THEN <<>>
    ELSE (IF Head(paras) > 0 THEN <<[words |-> Head(paras), para_idx |-> para_idx]>> ELSE <<>>)
         \o extract_docx(Tail(paras), para_idx + 1)

RECURSIVE TotalChars(_)
TotalChars(pages) == IF pages = <<>> THEN 0 ELSE Head(pages).chars + TotalChars(Tail(pages))

\* detect_scanned_pdf: total_chars / page_count < OCR_TEXT_THRESHOLD
detect_scanned_pdf(pages) ==
    IF Len(pages) = 0 THEN FALSE ELSE TotalChars(pages) < OCR_TEXT_THRESHOLD * Len(pages)

\* what running ocrmypdf can come to: "ran" (return code 0, the _ocr file
\* written), "nothing_to_do" (return code 6, no file written), "failed"
\* (another return code), "timeout" (TimeoutExpired), "absent" (no binary)
OcrOutcomes == {"ran", "nothing_to_do", "failed", "timeout", "absent"}

\* ocr_pdf: the pages of the path returned, or RuntimeError
ocr_pdf(doc) ==
    CASE doc.ocr = "ran" -> [raised |-> FALSE, pages |-> doc.ocr_pages]
      [] doc.ocr = "nothing_to_do" -> [raised |-> FALSE, pages |-> doc.pages]
      [] OTHER -> [raised |-> TRUE, pages |-> doc.pages]

RECURSIVE PdfChunks(_, _)
PdfChunks(pages, ocr_applied) ==
    IF pages = <<>> THEN <<>>
    ELSE chunk_text(Head(pages).text.words, Some(Head(pages).page_num), None, ocr_applied, <<>>)
         \o PdfChunks(Tail(pages), ocr_applied)

\* the loop over the paragraphs of a Word document: st holds all_chunks,
\* combined_text (its words, and the paragraphs it was put together from)
\* and start_para
RECURSIVE DocxLoop(_, _)
DocxLoop(paragraphs, st) ==
    IF paragraphs = <<>> THEN st
    ELSE LET p == Head(paragraphs)
         IN  DocxLoop(Tail(paragraphs),
                 IF st.combined_words + p.words > GroupWords
                 THEN [all_chunks |-> st.all_chunks \o
                                      (IF st.combined_words > 0
                                       THEN chunk_text(st.combined_words, None, Some(st.start_para),
                                                       FALSE, st.group)
                                       ELSE <<>>),
                       combined_words |-> p.words, group |-> <<p.para_idx>>,
                       start_para |-> p.para_idx]
                 ELSE [st EXCEPT !.combined_words = @ + p.words,
                                 !.group = Append(@, p.para_idx)])

\* process_document: the chunks, or the exception; ocr_ran tells whether
\* ocrmypdf did recognise text in this call
process_document_file(doc) ==
    CASE doc.suffix = ".pdf" ->
            LET is_scanned == detect_scanned_pdf(doc.pages)
                ocr == ocr_pdf(doc)
                ocr_applied == is_scanned /\ ~ocr.raised
                pages == extract_pdf(IF is_scanned THEN ocr.pages ELSE doc.pages, 1)
            IN  [outcome |-> "ok", chunks |-> PdfChunks(pages, ocr_applied),
                 is_scanned |-> is_scanned, ocr_ran |-> (is_scanned /\ doc.ocr = "ran")]
      [] doc.suffix = ".docx" ->
            LET st == DocxLoop(extract_docx(doc.paras, 1),
                               [all_chunks |-> <<>>, combined_words |-> 0, group |-> <<>>,
                                start_para |-> 1])
            IN  [outcome |-> "ok",
                 chunks |-> st.all_chunks \o
                            (IF st.combined_words > 0
                             THEN chunk_text(st.combined_words, None, Some(st.start_para), FALSE,
                                             st.group)
                             ELSE <<>>),
                 is_scanned |-> FALSE, ocr_ran |-> FALSE]
      [] OTHER -> [outcome |-> "ValueError", chunks |-> <<>>, is_scanned |-> FALSE,
                   ocr_ran |-> FALSE]

\* index_document: the entry of the chunks map for a chunk (JSON keeps None as null)
IndexEntry(chunk) == [page_num |-> chunk.page_num, para_idx |-> chunk.para_idx, ocr |-> chunk.ocr]

\* get_chunk_provenance: chunk_data.get("page_num"), chunk_data.get("para_idx")
get_chunk_provenance(entry) ==
    [page_num |-> entry.page_num, para_idx |-> entry.para_idx, ocr |-> entry.ocr]

\* add_chunks: "page_num": page_num or -1, "para_idx": para_idx or -1
OrMinusOne(value) == IF value = None \/ value[1] = 0 THEN -1 ELSE value[1]
Metadata(chunk) ==
    [page_num |-> OrMinusOne(chunk.page_num), para_idx |-> OrMinusOne(chunk.para_idx),
     ocr |-> chunk.ocr]

\* A plausible slip: the number stored for "none" is handed back as it is
FromMetadata_raw(value) == Some(value)

\* search_similar: metadata.get(key) if metadata.get(key, -1) != -1 else None
FromMetadata(value) == IF value # -1 THEN Some(value) ELSE None

VectorProvenance(metadata) ==
    [page_num |-> FromMetadata(metadata.page_num), para_idx |-> FromMetadata(metadata.para_idx),
     ocr |-> metadata.ocr]

\* pages: blank, a few words, a full page, a long page; what OCR makes of them
Pg_blank == [chars |-> 0, words |-> 0]
Pg_short == [chars |-> 40, words |-> 8]
Pg_full == [chars |-> 2400, words |-> 400]
Pg_long == [chars |-> 3600, words |-> 600]
PageKinds == {Pg_blank, Pg_short, Pg_long}
Recognised(page) == IF page = Pg_blank THEN Pg_full ELSE page
MaxPages == 2
MaxParas == 3
ParaWords == {0, 1, 300, 601}

PdfInputs ==
    {[suffix |-> ".pdf", pages |-> pages, ocr |-> ocr,
      ocr_pages |-> [i \in 1..Len(pages) |-> Recognised(pages[i])], paras |-> <<>>] :
        pages \in UNION {[1..n -> PageKinds] : n \in 0..MaxPages}, ocr \in OcrOutcomes}
DocxInputs ==
    {[suffix |-> ".docx", pages |-> <<>>, ocr |-> "absent", ocr_pages |-> <<>>, paras |-> paras] :
        paras \in UNION {[1..n -> ParaWords] : n \in 0..MaxParas}}
DocInputs ==
    {[suffix |-> ".doc", pages |-> <<>>, ocr |-> "absent", ocr_pages |-> <<>>, paras |-> <<1>>]}
DocumentInputs == PdfInputs \cup DocxInputs \cup DocInputs

NoDocument ==
    [op |-> "none", doc |-> [suffix |-> "", pages |-> <<>>, ocr |-> "absent", ocr_pages |-> <<>>,
                             paras |-> <<>>],
     outcome |-> "", chunks |-> <<>>, is_scanned |-> FALSE, ocr_ran |-> FALSE,
     index |-> <<>>, metadatas |-> <<>>, stored |-> <<>>, vector |-> <<>>]
IdleProcess == dlast = NoDocument

\* an upload from process_document on: the chunks, the entries index_document
\* writes and the metadata add_chunks hands to the collection
ProcessUpload(doc) ==
    \E r \in {process_document_file(doc)} :
        dlast' = [NoDocument EXCEPT
                    !.op = "upload", !.doc = doc, !.outcome = r.outcome, !.chunks = r.chunks,
                    !.is_scanned = r.is_scanned, !.ocr_ran = r.ocr_ran,
                    !.index = [i \in 1..Len(r.chunks) |-> IndexEntry(r.chunks[i])],
                    !.metadatas = [i \in 1..Len(r.chunks) |-> Metadata(r.chunks[i])]]

\* the provenance of the chunks read back from the chunk store and returned
\* by a vector search
ReadProvenance ==
    /\ dlast.op = "upload"
    /\ dlast' = [dlast EXCEPT
                    !.op = "read",
                    !.stored = [i \in 1..Len(dlast.index) |-> get_chunk_provenance(dlast.index[i])],
                    !.vector = [i \in 1..Len(dlast.metadatas) |-> VectorProvenance(dlast.metadatas[i])]]

(***************************************************************************)
(* update_session_with_turn step by step (session_manager.py): load_session *)
(* and the changes to the loaded state, then save_session, which opens       *)
(* session.tmp for writing, dumps the state and closes, and renames          *)
(* session.tmp to session.json.  There is no lock, so the steps of two calls *)
(* for one case interleave.  A file is an inode holding <<>> (nothing        *)
(* written) or <<state>>; json and tmp are the inodes the two names stand    *)
(* for, 0 when the name does not exist; a call keeps the inode it opened.    *)
(***************************************************************************)
Callers == {1, 2}
TurnFacts(c) == IF c = 1 THEN <<T_a>> ELSE <<T_b>>
\* the ids of the legal sources of a turn; two search hits can name one URL
TurnIds == {<<<<"s", "1">>>>, <<<<"s", "2">>>>, <<<<"s", "2">>, <<"s", "2">>>>}

NoSessionCall == [pc |-> "idle", state |-> NewSession, fd |-> 0, facts |-> <<>>, ids |-> <<>>]
NoSessionFile == [json |-> 0, tmp |-> 0, inodes |-> <<>>, calls |-> [c \in Callers |-> NoSessionCall]]
IdleSessionFile == sdisk = NoSessionFile

\* load_session: the state read from session.json; a new one when the file
\* does not exist or holds no JSON document
load_session(disk) ==
    IF disk.json # 0 /\ disk.inodes[disk.json] # <<>> THEN disk.inodes[disk.json][1] ELSE NewSession

\* update_session_with_turn up to save_session: the loaded state with the
\* turn's facts and ids and the turn counted
LoadAndModify(c, retrieved_facts, legal_source_ids) ==
    /\ sdisk.calls[c].pc = "idle"
    /\ sdisk' = [sdisk EXCEPT
                   !.calls[c] = [pc |-> "loaded",
                                 state |-> update_session_with_turn(load_session(sdisk),
                                                                    retrieved_facts,
                                                                    legal_source_ids),
                                 fd |-> 0, facts |-> retrieved_facts, ids |-> legal_source_ids]]

\* save_session: open(temp_path, "w") truncates session.tmp when it exists
\* and creates it otherwise
OpenTemp(c) ==
    /\ sdisk.calls[c].pc = "loaded"
    /\ sdisk' = IF sdisk.tmp # 0
                THEN [sdisk EXCEPT !.inodes[sdisk.tmp] = <<>>,
                                   !.calls[c].pc = "open", !.calls[c].fd = sdisk.tmp]
                ELSE [sdisk EXCEPT !.inodes = Append(@, <<>>), !.tmp = Len(sdisk.inodes) + 1,
                                   !.calls[c].pc = "open",
                                   !.calls[c].fd = Len(sdisk.inodes) + 1]

\* save_session: json.dump and the end of the with block; the text goes to
\* the file that was opened, whatever name it has by now
WriteTemp(c) ==
    /\ sdisk.calls[c].pc = "open"
    /\ sdisk' = [sdisk EXCEPT !.inodes[sdisk.calls[c].fd] = <<sdisk.calls[c].state>>,
                              !.calls[c].pc = "written"]

\* save_session: temp_path.replace(session_path); FileNotFoundError when
\* session.tmp has been renamed by another call
ReplaceSession(c) ==
    /\ sdisk.calls[c].pc = "written"
    /\ sdisk' = IF sdisk.tmp # 0
                THEN [sdisk EXCEPT !.json = sdisk.tmp, !.tmp = 0, !.calls[c].pc = "done"]
                ELSE [sdisk EXCEPT !.calls[c].pc = "raised"]

(***************************************************************************)
(* Specifications                                                          *)
(***************************************************************************)
IdleStore ==
    /\ wpc = "idle" /\ wjob = NoJob /\ rpc = "idle" /\ rbuf = NoBuf
    /\ robs = NoObs /\ wlog = {} /\ wdone = FALSE
IdleMatch == ex = <<>> /\ src = <<>> /\ mres = "idle"
IdleAnswer ==
    /\ store = CaseStore /\ session = NewSession /\ env = NoEnv /\ pc = "idle"
    /\ attempt = 0 /\ validation_errors = <<>> /\ current_prompt = NoPrompt
    /\ answer_text = <<>> /\ citations = <<>> /\ llm_calls = 0 /\ hist = <<>>
    /\ response = NoAnswer /\ exc = "" /\ session_updates = 0

IdleSearch ==
    /\ bm25_scores = [i \in 1..Len(SearchChunks) |-> 0]
    /\ chroma_distances = [i \in 1..Len(SearchChunks) |-> 0]
    /\ sq = NoQuery /\ sres = NoRanking
IdleExtra == IdleFiles /\ IdleValidate /\ IdleParse /\ IdleDelete /\ IdleRequest /\ IdleQuery /\ IdleWhitelist /\ IdleProcess /\ IdleSessionFile
IdleCaseSide == IdleSearch /\ IdleCase /\ IdleTenants /\ IdlePaths /\ IdleExtra

Init == InitFetch /\ IdleStore /\ IdleMatch /\ IdleAnswer /\ IdleCaseSide

Next ==
    \/ \E url \in Urls, force_refresh \in BOOLEAN :
          \* the response and the clock are read only when the GET is issued
          \E get \in {IssuesGet(url, force_refresh, whitelist, cache)} :
          \E resp \in IF get THEN Responses ELSE {NoResponse}, now \in IF get THEN Times ELSE {Epoch} :
             Fetch(url, force_refresh, resp, now) /\ UNCHANGED <<storeVars, matchVars, answerVars, caseSideVars>>
    \/ \E id \in CitedIds, url \in CitedUrls, excerpt \in CitedExcerpts :
          ValidateLegal(Citation(id, "legal", url, <<>>, None, excerpt))
             /\ UNCHANGED <<storeVars, matchVars, answerVars, caseSideVars>>
    \/ \E i \in 1..Len(WHITELIST_DOMAINS) :
          RemoveDomain(i) /\ UNCHANGED <<storeVars, matchVars, answerVars, caseSideVars>>
    \/ RestoreWhitelist /\ UNCHANGED <<storeVars, matchVars, answerVars, caseSideVars>>

Spec == Init /\ [][Next]_vars

OnlyFetch == UNCHANGED <<storeVars, matchVars, answerVars, caseSideVars>>

NextExcerpt ==
    \/ \E url \in ExcerptUrls, force_refresh \in BOOLEAN :
          \E get \in {IssuesGet(url, force_refresh, whitelist, cache)} :
          \E resp \in IF get THEN {[ok |-> TRUE, html |-> h] : h \in ExcerptPages} ELSE {NoResponse},
             now \in IF get THEN Times ELSE {Epoch} :
             Fetch(url, force_refresh, resp, now) /\ OnlyFetch
    \/ \E url \in ExcerptUrls : LookupByUrl(url) /\ OnlyFetch
    \/ \E url \in ExcerptUrls : LookupById(_url_to_hash(url)) /\ OnlyFetch

SpecExcerpt == Init /\ [][NextExcerpt]_vars

InitStore == InitFetch /\ IdleStore /\ IdleMatch /\ IdleAnswer /\ IdleCaseSide

OnlyStore == UNCHANGED <<whitelist, last, matchVars, answerVars, caseSideVars>>

NextStore ==
    \/ \E url \in StoreUrls, html \in StorePages : BeginStore(url, html, Epoch) /\ OnlyStore
    \/ StoreMkdir /\ OnlyStore
    \/ StoreOpenHtml /\ OnlyStore
    \/ StoreWriteHtml /\ OnlyStore
    \/ StoreOpenText /\ OnlyStore
    \/ StoreWriteText /\ OnlyStore
    \/ StoreOpenMeta /\ OnlyStore
    \/ StoreWriteMeta /\ OnlyStore
    \/ StoreStops /\ OnlyStore
    \/ \E url \in StoreUrls : BeginLoad(url) /\ OnlyStore
    \/ LoadMeta /\ OnlyStore
    \/ LoadText /\ OnlyStore
    \/ LoadHtml /\ OnlyStore

SpecStore == InitStore /\ [][NextStore]_vars

InitMatch ==
    /\ InitFetch /\ IdleStore /\ IdleAnswer /\ IdleCaseSide
    /\ ex \in ExcerptInputs
    /\ src \in SourceInputs
    /\ mres = "idle"

NextMatch == Match /\ UNCHANGED <<fetchVars, storeVars, answerVars, caseSideVars>>

SpecMatch == InitMatch /\ [][NextMatch]_vars

InitAnswer ==
    /\ whitelist = WHITELIST_DOMAINS /\ cache = AnswerCache /\ last = NoCall
    /\ IdleStore /\ IdleMatch /\ IdleAnswer /\ IdleCaseSide

OnlyAnswer == UNCHANGED <<fetchVars, storeVars, matchVars, caseSideVars>>

NextAnswer ==
    \/ \E client_evidence \in ClientEvidence, legal_sources \in LegalSources :
          /\ session.turn_count < MaxTurns
          /\ StartAnswer(client_evidence, legal_sources) /\ OnlyAnswer
    \/ CallLLM /\ OnlyAnswer
    \/ \E text \in Answers : LLMReplies(text) /\ OnlyAnswer
    \/ LLMFails /\ OnlyAnswer
    \/ Finish /\ OnlyAnswer

SpecAnswer == InitAnswer /\ [][NextAnswer]_vars

\* the loop runs on once entered, and a completion request returns or raises
SpecAnswerLive ==
    /\ SpecAnswer
    /\ WF_vars(CallLLM /\ OnlyAnswer)
    /\ WF_vars((LLMFails \/ \E text \in Answers : LLMReplies(text)) /\ OnlyAnswer)

\* a search over the chunks of one case, whatever the two indexes score
InitSearch ==
    /\ InitFetch /\ IdleStore /\ IdleMatch /\ IdleAnswer
    /\ bm25_scores \in [1..Len(SearchChunks) -> RawScores]
    /\ chroma_distances \in [1..Len(SearchChunks) -> RawDistances]
    /\ sq = NoQuery /\ sres = NoRanking
    /\ IdleCase /\ IdleTenants /\ IdlePaths /\ IdleExtra

OnlySearch == UNCHANGED <<fetchVars, storeVars, matchVars, answerVars, caseVars, tenantVars, pathVars, extraVars>>

NextSearch ==
    \/ \E top_k \in 1..MaxTopK : SearchHybrid(top_k) /\ OnlySearch
    \/ \E top_k \in 1..MaxTopK : SearchKeywordOnly(top_k) /\ OnlySearch
    \/ \E top_k \in 1..MaxTopK : SearchVectorOnly(top_k) /\ OnlySearch

SpecSearch == InitSearch /\ [][NextSearch]_vars

\* uploads, deletes and searches of one case, one request at a time
InitCase == InitFetch /\ IdleStore /\ IdleMatch /\ IdleAnswer /\ IdleCaseSide

OnlyCase == UNCHANGED <<fetchVars, storeVars, matchVars, answerVars, searchVars, tenantVars, pathVars, extraVars>>

NextCase ==
    \/ \E file_name \in CaseFiles, content \in Contents, process_ok \in BOOLEAN, embed_ok \in BOOLEAN :
          UploadDocument(file_name, content, process_ok, embed_ok) /\ OnlyCase
    \/ \E file_name \in CaseFiles : DeleteDocument(file_name) /\ OnlyCase
    \/ \E mode \in Modes : Retrieve(mode) /\ OnlyCase

SpecCase == InitCase /\ [][NextCase]_vars

\* the same requests handled side by side: an upload and a search interleave
NextCaseParallel ==
    \/ \E file_name \in CaseFiles, content \in Contents : UploadSave(file_name, content) /\ OnlyCase
    \/ UploadIndex /\ OnlyCase
    \/ UploadEmbed /\ OnlyCase
    \/ UploadReturn /\ OnlyCase
    \/ \E mode \in {"keyword", "hybrid"} : QueryBegin(mode) /\ OnlyCase
    \/ BuildRead /\ OnlyCase
    \/ BuildStore /\ OnlyCase
    \/ QueryAnswer /\ OnlyCase

SpecCaseParallel == InitCase /\ [][NextCaseParallel]_vars

\* uploads, deletes and searches in several cases
OnlyTenants == UNCHANGED <<fetchVars, storeVars, matchVars, answerVars, searchVars, caseVars, pathVars, extraVars>>

NextTenants ==
    \/ \E case_id \in TenantIds : TenantUpload(case_id, F_doc, <<T_a>>) /\ OnlyTenants
    \/ \E case_id \in TenantIds : TenantDelete(case_id, F_doc) /\ OnlyTenants
    \/ \E case_id \in TenantIds, mode \in Modes : TenantRetrieve(case_id, mode) /\ OnlyTenants

SpecTenants == InitCase /\ [][NextTenants]_vars

\* calls with a case id, over a CASES_DIR that also changes from outside
OnlyPaths == UNCHANGED <<fetchVars, storeVars, matchVars, answerVars, searchVars, caseVars, tenantVars, extraVars>>

NextPaths ==
    \/ \E case_id \in CaseIdInputs : CreateCase(case_id) /\ OnlyPaths
    \/ \E case_id \in CaseIdInputs : ValidateCasePath(case_id) /\ OnlyPaths
    \/ \E kind \in CaseOperations, case_id \in CaseIdInputs : CaseOperation(kind, case_id) /\ OnlyPaths
    \/ \E name \in FsNames : PlaceEntry(name, FileEntry) /\ OnlyPaths
    \/ \E target \in LinkTargets : PlaceEntry(Id_link, LinkTo(target)) /\ OnlyPaths
    \/ \E name \in FsNames : RemoveEntry(name) /\ OnlyPaths

SpecPaths == InitCase /\ [][NextPaths]_vars

OnlyFiles == UNCHANGED <<fetchVars, storeVars, matchVars, answerVars, searchVars, caseVars, tenantVars, pathVars, validateVars, parseVars, deleteVars, requestVars, queryVars, whitelistVars, processVars, sessionFileVars>>

NextFiles ==
    \/ \E case_id \in FileCaseIds, file_name \in FileNameInputs :
          ValidateFilePath(case_id, file_name) /\ OnlyFiles
    \/ \E name \in FileFsNames : PlaceFile(name, FileEntry) /\ OnlyFiles
    \/ \E target \in FileLinkTargets : PlaceFile(N_link, LinkTo(target)) /\ OnlyFiles
    \/ \E name \in FileFsNames : RemoveFile(name) /\ OnlyFiles

SpecFiles == InitCase /\ [][NextFiles]_vars

OnlyValidate == UNCHANGED <<storeVars, matchVars, answerVars, searchVars, caseVars, tenantVars, pathVars, fileVars, parseVars, deleteVars, requestVars, queryVars, whitelistVars, processVars, sessionFileVars>>

NextValidate ==
    \/ \E cits \in CitationLists : ValidateCitations(cits) /\ UNCHANGED fetchVars /\ OnlyValidate
    \/ \E file_name \in CaseFiles, content \in Contents :
          StoreDocument(file_name, content) /\ UNCHANGED fetchVars /\ OnlyValidate
    \/ \E file_name \in CaseFiles : RemoveDocument(file_name) /\ UNCHANGED fetchVars /\ OnlyValidate
    \/ \E get \in {IssuesGet(U_gov, FALSE, whitelist, cache)} :
       \E resp \in IF get THEN {[ok |-> TRUE, html |-> H_plain]} ELSE {NoResponse} :
          Fetch(U_gov, FALSE, resp, Epoch) /\ UNCHANGED validateVars /\ OnlyValidate

SpecValidate == Init /\ [][NextValidate]_vars

OnlyParse == UNCHANGED <<fetchVars, storeVars, matchVars, answerVars, searchVars, caseVars, tenantVars, pathVars, fileVars, validateVars, deleteVars, requestVars, queryVars, whitelistVars, processVars, sessionFileVars>>

NextParse ==
    \E text \in ParseTexts, legal_sources \in LegalSources :
        ParseCitations(text, legal_sources) /\ OnlyParse

SpecParse == Init /\ [][NextParse]_vars

OnlyDelete == UNCHANGED <<fetchVars, storeVars, matchVars, answerVars, searchVars, tenantVars, pathVars, fileVars, validateVars, parseVars, requestVars, queryVars, whitelistVars, processVars, sessionFileVars>>

NextDelete ==
    \/ \E file_name \in CaseFiles : UploadBeside(file_name, <<T_b, T_a>>) /\ OnlyDelete
    \/ \E file_name \in CaseFiles : DeleteBegin(file_name) /\ OnlyDelete
    \/ DeleteVectors /\ OnlyDelete
    \/ DeleteUnlink /\ OnlyDelete
    \/ DeleteSaveIndex /\ OnlyDelete
    \/ DeleteFile /\ OnlyDelete
    \/ DeleteReturn /\ OnlyDelete
    \/ \E mode \in Modes : SearchBeside(mode) /\ OnlyDelete
    \/ \E file_name \in CaseFiles : ValidateBeside(file_name) /\ OnlyDelete

SpecDelete == InitCase /\ [][NextDelete]_vars

(***************************************************************************)
(* Properties of the fetcher and the validator                             *)
(***************************************************************************)
\* the host of each URL of the model, lower case, written out
HostOf(url) ==
    CASE url = U_gov -> <<"w","w","w",".","g","o","v",".","u","k">>
      [] url = U_acas -> <<"a","c","a","s",".","o","r","g",".","u","k">>
      [] url = U_evil -> <<"e","v","i","l",".","e","x",".","c","o","m">>
      [] url = U_evilgov -> <<"e","v","i","l","g","o","v",".","u","k">>

\* the whitelist rule: the host is an entry, or a label sequence followed by
\* a dot and an entry
HostAllowed(url, wl) ==
    \E i \in 1..Len(wl) :
        \/ HostOf(url) = wl[i]
        \/ \E k \in 1..Len(HostOf(url)) :
              /\ HostOf(url)[k] = "."
              /\ SubSeq(HostOf(url), k + 1, Len(HostOf(url))) = wl[i]

SnapshotDirs(id) == {p \in CachePaths : p[2] = id /\ cache[p].meta # None}

\* the snapshot stored under an id, read file by file
StoredUrl(id) == cache[CHOOSE p \in SnapshotDirs(id) : TRUE].meta[1].obj.url
StoredText(id) == ReadFile(cache[CHOOSE p \in SnapshotDirs(id) : TRUE].text)

\* C1: a fetch of a URL whose host is not whitelisted fails with
\* DomainNotAllowed, issues no network request and leaves the cache as it
\* was, with or without force_refresh and whatever the cache holds.
C1_DeniedBeforeNetwork ==
    [][(last'.op = "fetch" /\ ~HostAllowed(last'.url, whitelist))
         => (last'.outcome = "DomainNotAllowed" /\ last'.net = 0 /\ cache' = cache)]_vars

W_C1 ==
    /\ last.op = "fetch" /\ ~HostAllowed(last.url, whitelist)
    /\ cache[_get_cache_path(last.url)].meta # None
    /\ last.outcome = "DomainNotAllowed"

\* C7: a legal citation is valid exactly when its snapshot exists, its URL
\* (when given) is the stored URL, the stored URL's host is whitelisted now,
\* and its excerpt is non-empty and found in the stored text; the reason
\* reported is that of the first of these four checks that fails.
C7_FourChecksInOrder ==
    last.op = "validate" =>
        LET cit == last.cit
            check1 == SnapshotDirs(cit.id) # {}
            check2 == cit.url = <<>> \/ cit.url = StoredUrl(cit.id)
            check3 == HostAllowed(StoredUrl(cit.id), whitelist)
            check4 == cit.excerpt # <<>> /\ ExcerptFound(cit.excerpt, StoredText(cit.id))
        IN  /\ last.ok <=> (check1 /\ check2 /\ check3 /\ check4)
            /\ last.reason =
                 IF ~check1 THEN "Unknown citation ID"
                 ELSE IF ~check2 THEN "URL mismatch"
                 ELSE IF ~check3 THEN "Domain not whitelisted"
                 ELSE IF cit.excerpt = <<>> THEN "Citation has no excerpt"
                 ELSE IF ~check4 THEN "Excerpt not found in source text"
                 ELSE "Valid"

W_C7 ==
    /\ last.op = "validate" /\ SnapshotDirs(last.cit.id) # {}
    /\ last.cit.url # <<>> /\ last.cit.url # StoredUrl(last.cit.id)
    /\ ~HostAllowed(StoredUrl(last.cit.id), whitelist)
    /\ ~ExcerptFound(last.cit.excerpt, StoredText(last.cit.id))
    /\ last.reason = "URL mismatch"

\* C9: once the domain of a cached snapshot has left the whitelist, every
\* citation to that snapshot is invalid although the snapshot is still there
\* and holds the excerpt, and a fetch of its URL fails with DomainNotAllowed.
C9_ShrunkWhitelistRechecked ==
    /\ (/\ last.op = "validate" /\ SnapshotDirs(last.cit.id) # {}
        /\ ~HostAllowed(StoredUrl(last.cit.id), whitelist)) => ~last.ok
    /\ (/\ last.op = "fetch" /\ cache[_get_cache_path(last.url)].meta # None
        /\ ~HostAllowed(last.url, whitelist)) => last.outcome = "DomainNotAllowed"

W_C9 ==
    /\ last.op = "validate" /\ SnapshotDirs(last.cit.id) # {}
    /\ HostAllowed(StoredUrl(last.cit.id), WHITELIST_DOMAINS)
    /\ ~HostAllowed(StoredUrl(last.cit.id), whitelist)
    /\ last.cit.url = StoredUrl(last.cit.id)
    /\ last.cit.excerpt # <<>> /\ ExcerptFound(last.cit.excerpt, StoredText(last.cit.id))
    /\ ~last.ok /\ last.reason = "Domain not whitelisted"

\* C10: two fetches of a whitelisted URL in a row, both without
\* force_refresh, return the same snapshot field by field, and the second
\* issues no network request and writes nothing to the cache.
C10_RefetchIdentical ==
    [][(/\ last.op = "fetch" /\ ~last.force /\ last.snap # None
        /\ last'.op = "fetch" /\ ~last'.force /\ last'.url = last.url
        /\ HostAllowed(last.url, whitelist))
         => (last'.snap = last.snap /\ last'.net = 0 /\ cache' = cache)]_vars

\* a snapshot is there for the URL: its directory holds a readable meta.json
HasSnapshot(c, url) == _load_source_from_path(c[_get_cache_path(url)]) # None

\* C11: the files of a snapshot that is there change only in a fetch of its
\* own URL with force_refresh; fetches without force_refresh (those of the
\* query helper and of answer generation are such), citation validations and
\* whitelist edits leave every existing snapshot as it is.
C11_SnapshotChangesOnlyByForce ==
    [][\A p \in CachePaths :
          (_load_source_from_path(cache[p]) # None /\ cache'[p] # cache[p])
            => (/\ last'.op = "fetch" /\ last'.force
                /\ _get_cache_path(last'.url) = p
                /\ last'.outcome = "fresh")]_vars

\* a fetch without force_refresh was answered from a snapshot that an
\* earlier fetch at another time had written
W_C11 ==
    /\ last.op = "fetch" /\ ~last.force /\ last.outcome = "cached"
    /\ HasSnapshot(cache, last.url)
    /\ \E p \in CachePaths : p # _get_cache_path(last.url) /\ cache[p].meta # None

\* C12: a fetch of a whitelisted URL that finds no snapshot or is forced
\* issues the GET; when the GET fails the fetch fails with FetchError and
\* the cache is as before, and a fetch of the same URL without
\* force_refresh right after a failed forced one returns the snapshot that
\* was there, without a GET.
C12_FailedFetchPersistsNothing ==
    [][/\ (/\ last'.op = "fetch" /\ HostAllowed(last'.url, whitelist)
            /\ (last'.force \/ ~HasSnapshot(cache, last'.url)))
          => (last'.net = 1 /\ last'.outcome \in {"fresh", "FetchError"})
       /\ (last'.op = "fetch" /\ last'.outcome = "FetchError")
          => (cache' = cache /\ ~last'.wrote /\ last'.snap = None)
       /\ (/\ last.op = "fetch" /\ last.force /\ last.outcome = "FetchError"
            /\ HasSnapshot(cache, last.url)
            /\ last'.op = "fetch" /\ ~last'.force /\ last'.url = last.url
            /\ HostAllowed(last.url, whitelist))
          => (/\ last'.outcome = "cached" /\ last'.net = 0
              /\ last'.snap = get_source_by_url(cache, last.url)
              /\ cache' = cache)]_vars

\* a forced fetch failed while a snapshot of its URL was in the cache
W_C12 ==
    /\ last.op = "fetch" /\ last.force /\ last.outcome = "FetchError"
    /\ last.net = 1 /\ HasSnapshot(cache, last.url)

\* C2: a read of the snapshot cache that runs beside store_source for the
\* same URL, or after a writer stopped part-way, returns either no snapshot
\* (when none had been completely written before the read began) or a
\* snapshot whose html, text and meta all come from one store_source call.
C2_NoTornSnapshot ==
    robs.done =>
        \/ robs.snap = None /\ ~robs.had
        \/ robs.snap # None /\ robs.snap[1] \in wlog

\* the claim's matching rule, stated on the normalized texts
NormalizedSubstring(excerpt, source) ==
    LET e == _normalize_whitespace(excerpt)
        t == _normalize_whitespace(source)
    IN  \E i \in 1..(Len(t) + 1) : \E j \in (i - 1)..Len(t) : SubSeq(t, i, j) = e

WindowRateReached(excerpt, source) ==
    LET e == Split(_normalize_whitespace(excerpt))
        t == Split(_normalize_whitespace(source))
        n == Len(e)
    IN  \E i \in 1..Len(t) :
            /\ i + n - 1 <= Len(t)
            /\ 5 * Cardinality({k \in 1..n : e[k] = t[i + k - 1]}) >= 4 * n

WordCount(excerpt) == Len(Split(_normalize_whitespace(excerpt)))

\* C8: the excerpt test passes exactly when the normalized excerpt is a
\* substring of the normalized source, or the excerpt has at least 3 words and
\* some window of that many source words agrees with it in at least 0.8 of
\* the positions; an excerpt of fewer than 3 words passes only as a substring.
C8_ExcerptContainment ==
    mres # "idle" =>
        /\ (mres = "found") <=>
              \/ NormalizedSubstring(ex, src)
              \/ WordCount(ex) >= 3 /\ WindowRateReached(ex, src)
        /\ WordCount(ex) < 3 => ((mres = "found") <=> NormalizedSubstring(ex, src))

\* an excerpt that passes by the window rule alone: not a substring
W_C8 ==
    /\ mres = "found"
    /\ ~NormalizedSubstring(ex, src)
    /\ WordCount(ex) >= 3

(***************************************************************************)
(* Properties of the answer engine                                         *)
(***************************************************************************)
Returned == pc = "returned"
LastAttempt == hist[Len(hist)]
AllFailed == \A i \in 1..Len(hist) : ~hist[i].all_valid

\* the claim's matching rule
Contained(excerpt, text) ==
    \/ NormalizedSubstring(excerpt, text)
    \/ WordCount(excerpt) >= 3 /\ WindowRateReached(excerpt, text)

\* the stored text a citation refers to, None when there is none
ReferencedText(cit) ==
    IF cit.source_type = "legal"
    THEN (IF \E p \in CachePaths : p[2] = cit.id /\ _load_source_from_path(cache[p]) # None
          THEN Some(get_source(cache, cit.id)[1].text)
          ELSE None)
    ELSE get_raw_text(store, cit.file_name, cit.page_num)

\* C3: a response with citations_valid = true carries the answer and the
\* citations of one attempt, each citation refers to stored text that exists
\* and contains its excerpt under the matching rule, having passed every
\* validator check, and the list is non-empty when evidence was available.
C3_ValidMeansGrounded ==
    (Returned /\ response.citations_valid) =>
        /\ response.answer = LastAttempt.answer
        /\ response.citations = LastAttempt.citations
        /\ response.citations = _parse_citations(response.answer, env.legal_sources)
        /\ \A i \in 1..Len(response.citations) :
              LET cit == response.citations[i]
              IN  /\ validate_citation(cit, store, cache, whitelist).ok
                  /\ cit.excerpt # <<>>
                  /\ ReferencedText(cit) # None
                  /\ Contained(cit.excerpt, ReferencedText(cit)[1])
        /\ (env.client_evidence # <<>> \/ env.legal_sources # <<>>) => response.citations # <<>>

\* a valid response after a failed attempt, citing a client page and a snapshot
W_C3 ==
    /\ Returned /\ response.citations_valid
    /\ Len(hist) = 2
    /\ \E i, j \in 1..Len(response.citations) :
          response.citations[i].source_type = "client"
              /\ response.citations[j].source_type = "legal"

\* C4 (bound): a call makes at most MAX_CITATION_RETRIES + 1 completion
\* requests, one at a time; it returns at the first attempt that validates,
\* and a failure return follows exactly MAX_CITATION_RETRIES + 1 requests.
C4_CallsBounded ==
    /\ llm_calls <= MAX_CITATION_RETRIES + 1
    /\ llm_calls - Len(hist) \in {0, 1}
    /\ (pc = "waiting") => llm_calls = Len(hist) + 1
    /\ (pc \in {"loop", "returned"}) => llm_calls = Len(hist)
    /\ \A i \in 1..(Len(hist) - 1) : ~hist[i].all_valid
    /\ (Returned /\ response.citations_valid) => LastAttempt.all_valid
    /\ (Returned /\ ~response.citations_valid) =>
          llm_calls = MAX_CITATION_RETRIES + 1 /\ AllFailed
    /\ (pc \in {"loop", "waiting"}) => AllFailed

\* C4: generate_answer terminates, within the bound on completion requests
C4_TerminatesWithinBound ==
    /\ []C4_CallsBounded
    /\ (pc = "loop") ~> (pc \in {"returned", "raised"})

\* every attempt failed: the failure return after three requests
W_C4 == Returned /\ ~response.citations_valid /\ llm_calls = MAX_CITATION_RETRIES + 1

\* the return after MAX_CITATION_RETRIES + 1 attempts whose validation reported
\* errors: the last attempt's answer with the warning suffix, citations_valid =
\* false, the last attempt's citations, and its errors, at least one
FailureReturnsLastAttempt ==
    (Len(hist) = MAX_CITATION_RETRIES + 1 /\ AllFailed) =>
        /\ pc \in {"returned", "idle"}
        /\ ~response.citations_valid
        /\ response.answer = LastAttempt.answer \o <<WarningSuffix>>
        /\ response.citations = LastAttempt.citations
        /\ response.citations = _parse_citations(LastAttempt.answer, env.legal_sources)
        /\ response.validation_errors = LastAttempt.errors
        /\ response.validation_errors # <<>>

\* C5: a call in which no attempt's citations validate does not raise: it
\* returns the last attempt's answer with the warning suffix, citations_valid
\* = false, and the last attempt's citations and errors; an exception out of
\* generate_answer never stems from the citations of an answer.
C5_FailureNeverRaises ==
    /\ FailureReturnsLastAttempt
    /\ exc # "OSError"

\* the session after one recorded turn
TurnRecorded(before, after) ==
    /\ after.turn_count = before.turn_count + 1
    /\ after.retrieved_facts =
          before.retrieved_facts \o [i \in 1..Len(env.client_evidence) |-> env.client_evidence[i].text]
    /\ {after.legal_sources_used[i] : i \in 1..Len(after.legal_sources_used)} =
          {before.legal_sources_used[i] : i \in 1..Len(before.legal_sources_used)}
              \cup {env.legal_sources[i].id : i \in 1..Len(env.legal_sources)}

\* C6: a call that returns citations_valid = true has updated the session
\* exactly once; until then, and in a call that returns citations_valid =
\* false or raises, the session is what it was when the call began.
C6_SessionUpdatedOnSuccessOnly ==
    /\ (Returned /\ response.citations_valid) =>
          session_updates = 1 /\ TurnRecorded(env.session_before, session)
    /\ (Returned /\ ~response.citations_valid) =>
          session_updates = 0 /\ session = env.session_before
    /\ (pc \in {"loop", "waiting", "raised"}) =>
          session_updates = 0 /\ session = env.session_before

\* a second turn recorded after two failed attempts
W_C6 ==
    /\ Returned /\ response.citations_valid
    /\ Len(hist) = 3
    /\ session.turn_count = 2
    /\ session.retrieved_facts # <<>>
(***************************************************************************)
(* Properties of retrieval                                                 *)
(***************************************************************************)
\* C13: the hybrid search with its default weights returns at most top_k
\* results, each with a fused score from 0 to 1, the scores never rising
\* along the list.
C13_HybridBoundedSorted ==
    sq.mode = "hybrid" =>
        /\ Len(sres.results) <= sq.top_k
        /\ \A i \in 1..Len(sres.results) :
              /\ sres.results[i].score.d > 0
              /\ 0 <= sres.results[i].score.n
              /\ sres.results[i].score.n <= sres.results[i].score.d
        /\ \A i \in 1..(Len(sres.results) - 1) :
              sres.results[i + 1].score.n * sres.results[i].score.d
                 <= sres.results[i].score.n * sres.results[i + 1].score.d

\* a hybrid search that had more candidates than top_k and returned top_k
\* results of three different scores, one of them strictly between 0 and 1
W_C13 ==
    /\ sq.mode = "hybrid" /\ sq.top_k = 3 /\ Len(sres.results) = 3
    /\ Len(sres.ranked) > 3
    /\ FLess(sres.results[2].score, sres.results[1].score)
    /\ FLess(sres.results[3].score, sres.results[2].score)
    /\ \E i \in 1..Len(sres.ranked) : sres.ranked[i].score.n > 0 /\ sres.ranked[i].score.d > 2

\* position of a returned result in the ranked list
RankOf(chunk_id) == CHOOSE i \in 1..Len(sres.ranked) : sres.ranked[i].chunk_id = chunk_id
ReturnedIds == {sres.results[i].chunk_id : i \in 1..Len(sres.results)}

\* the candidate at rank r has MAX_CHUNKS_PER_DOC candidates of its file before it
CapExcluded(r) ==
    Cardinality({q \in 1..(r - 1) : sres.ranked[q].file_name = sres.ranked[r].file_name}) >= 3

\* the candidate at rank r is a near-duplicate of a returned result ranked before it
LostToEarlier(r) ==
    \E q \in 1..(r - 1) :
        /\ sres.ranked[q].chunk_id \in ReturnedIds
        /\ NearDuplicate(sres.ranked[r].text, sres.ranked[q].text)

\* C14: in the list returned by each of the three modes no file name is on
\* more than MAX_CHUNKS_PER_DOC results and no two results are near-duplicates
\* (token-set Jaccard similarity of 0.9 or more); the results keep their score
\* order, and a result left out as a near-duplicate is one of a result that
\* stands before it in that order.
C14_CapAndDedupe ==
    sq.mode # "idle" =>
        /\ \A i \in 1..Len(sres.results) :
              Cardinality({j \in 1..Len(sres.results) :
                             sres.results[j].file_name = sres.results[i].file_name}) <= 3
        /\ \A i, j \in 1..Len(sres.results) :
              i # j =>
                \E a \in {TokenSet(sres.results[i].text)}, b \in {TokenSet(sres.results[j].text)} :
                    a \cup b # {} => 10 * Cardinality(a \cap b) < 9 * Cardinality(a \cup b)
        /\ \A i \in 1..Len(sres.results) :
              /\ \E r \in 1..Len(sres.ranked) : sres.ranked[r] = sres.results[i]
              /\ \A j \in 1..Len(sres.results) :
                    i < j => RankOf(sres.results[i].chunk_id) < RankOf(sres.results[j].chunk_id)
        /\ \A r \in 1..Len(sres.ranked) :
              sres.ranked[r].chunk_id \notin ReturnedIds =>
                 \/ CapExcluded(r)
                 \/ LostToEarlier(r)
                 \/ Len(sres.results) = sq.top_k

\* the cap left out one candidate, the deduplication another, and a returned
\* result has a near-duplicate before it in the ranking that was left out
W_C14 ==
    /\ sq.mode = "hybrid" /\ Len(sres.results) < sq.top_k
    /\ \E r \in 1..Len(sres.ranked) : CapExcluded(r)
    /\ \E r \in 1..Len(sres.ranked) :
          /\ sres.ranked[r].chunk_id \notin ReturnedIds /\ ~CapExcluded(r) /\ LostToEarlier(r)
    /\ \E r \in 1..Len(sres.ranked) : \E q \in 1..(r - 1) :
          /\ sres.ranked[r].chunk_id \in ReturnedIds
          /\ sres.ranked[q].chunk_id \notin ReturnedIds
          /\ NearDuplicate(sres.ranked[r].text, sres.ranked[q].text)

(***************************************************************************)
(* Properties of a case's documents                                        *)
(***************************************************************************)
\* C15: when every upload so far has succeeded, each chunk a search returns
\* in any mode has the text stored under its chunk id in raw_text and the
\* file name of a document the case holds.
C15_ResultsMatchStore ==
    (clast.op = "retrieve" /\ ~failed) =>
        \A r \in clast.results :
            /\ get_chunk_text(kase, r.chunk_id) = Some(r.text)
            /\ r.file_name \in DOMAIN kase.documents
            /\ r.file_name \in kase.files

\* C16: when every upload so far has succeeded, a delete of the file that
\* the upload just before it stored leaves the documents map, the chunks map
\* and the number of vectors as they were before that upload, whatever the
\* case held then.
C16_UploadDeleteRestores ==
    (clast.op = "delete" /\ clast.undoes /\ ~failed) =>
        /\ kase.documents = clast.before.documents
        /\ kase.chunks = clast.before.chunks
        /\ Cardinality(DOMAIN kase.collection) = Cardinality(DOMAIN clast.before.collection)

\* C17: a lexical or hybrid search that begins after an upload has returned
\* uses an index that holds the chunks of that upload, also when requests
\* overlap.
C17_UploadVisible ==
    (clast.op = "retrieve" /\ clast.mode \in {"keyword", "hybrid"}) =>
        clast.completed \subseteq clast.index_ids

\* C18: an upload whose embedding failed leaves the documents map, the chunks
\* map, the raw_text files and the collection as they were before it.
C18_FailedUploadWritesNothing ==
    (clast.op = "upload" /\ clast.outcome = "EmbeddingFailed") =>
        /\ kase.documents = clast.before.documents
        /\ kase.chunks = clast.before.chunks
        /\ kase.raw_text = clast.before.raw_text
        /\ kase.collection = clast.before.collection

(***************************************************************************)
(* Properties of case separation and of case paths                         *)
(***************************************************************************)
\* C19: an upload or delete in one case leaves what a search returns in
\* every other case, in every mode, as it was.
C19_CasesIsolated ==
    [][\A other \in TenantIds :
          (tlast'.op \in {"upload", "delete"} /\ other # tlast'.case_id)
            => \A mode \in Modes :
                  SearchOf(tenants', partitions', other, mode)
                     = SearchOf(tenants, partitions, other, mode)]_vars

\* the claim's rule for a case id that must be refused
MustRefuse(case_id) ==
    \/ \E i \in 1..(Len(case_id) - 1) : case_id[i] = "." /\ case_id[i + 1] = "."
    \/ \E i \in 1..Len(case_id) : case_id[i] \in {"/", "\\"}
    \/ (case_id # <<>> /\ case_id[1] = ".")
    \/ \A i \in 1..Len(case_id) : case_id[i] \in Whitespace

FileMustRefuse(file_name) ==
    \/ Contains(file_name, <<".", ".">>)
    \/ HasChar(file_name, "/") \/ HasChar(file_name, "\\")
    \/ StartsWith(file_name, <<".">>)
    \/ file_name = <<>> \/ Strip(file_name) = <<>>

\* C21: validate_file_path refuses every file name that holds '..', '/' or a
\* backslash, starts with '.', or is empty or blank, and every path it
\* returns lies strictly below the case directory.
C21_FileNamesChecked ==
    flast.op = "validate" =>
        /\ FileMustRefuse(flast.file_name) => flast.outcome = "PathValidationError"
        /\ flast.outcome = "ok" =>
              \E r \in {validate_case_path(flast.case_id, cases_dir)} :
                  /\ r.outcome = "ok"
                  /\ IsUnder(flast.path, r.path)
                  /\ flast.path # r.path

(***************************************************************************)
(* Properties of the excerpt of a snapshot                                 *)
(***************************************************************************)
\* C22: the excerpt of every snapshot that a fetch, get_source or
\* get_source_by_url returns is a prefix of that snapshot's text, whatever
\* the length of the text.
C22_ExcerptIsPrefix ==
    last.snap # None => StartsWith(last.snap[1].text, last.snap[1].excerpt)

(***************************************************************************)
(* Properties of the validation of citations                               *)
(***************************************************************************)
\* C23: a validation changes nothing that is kept (the snapshot cache, the
\* document index, the raw texts, the contents of the case directory), and
\* validating the same citations again right away gives the same verdicts.
C23_ValidationChangesNothing ==
    [][vlast'.op = "validate" =>
          /\ vcase' = vcase /\ cache' = cache
          /\ (vlast.op = "validate" /\ vlast.cits = vlast'.cits)
                => vlast'.verdicts = vlast.verdicts]_vars

\* C24: a client citation judged valid names the file of every chunk whose
\* text its excerpt was compared with, and when it gives a page those
\* chunks are on that page, whether the text was found by chunk id or by
\* file and page.
C24_LocatorConsistent ==
    vlast.op = "validate" =>
        \A i \in 1..Len(vlast.cits) :
            (vlast.cits[i].source_type = "client" /\ vlast.verdicts[i].ok) =>
                \A chunk_id \in ResolvedChunks(vlast.cits[i], vcase) :
                    /\ chunk_id \in DOMAIN vcase.chunks
                    /\ vcase.chunks[chunk_id].file_name = vlast.cits[i].file_name
                    /\ vlast.cits[i].page_num # None
                          => vcase.chunks[chunk_id].page_num = vlast.cits[i].page_num

(***************************************************************************)
(* Properties of citation parsing                                          *)
(***************************************************************************)
\* C25: an answer whose markers put the excerpt in curly quotes is parsed
\* into the same citations as the same answer with straight quotes.
C25_CurlyQuotesParsed ==
    parsed.op = "parse" => parsed.curly = parsed.straight

\* C26: a marker in the legal syntax whose URL is the URL of no snapshot
\* handed to the LLM gives a Citation without a snapshot id, and the attempt
\* that holds such a marker is not accepted as valid.
C26_UnknownLegalUrlRejected ==
    \A h \in 1..Len(hist) : \A i \in 1..Len(hist[h].answer) :
        LET seg == hist[h].answer[i]
            url == Strip(Inner(seg))
        IN  (/\ LegalPatternMatches(seg)
             /\ \A j \in 1..Len(env.legal_sources) : env.legal_sources[j].url # url)
               => /\ \E c \in 1..Len(hist[h].citations) :
                        /\ hist[h].citations[c].source_type = "legal"
                        /\ hist[h].citations[c].url = url
                        /\ hist[h].citations[c].id = <<>>
                  /\ ~hist[h].all_valid

(***************************************************************************)
(* Properties of the delete handler beside other requests                  *)
(***************************************************************************)
\* C27: a search or a citation validation that runs while a document is
\* being deleted sees all the chunks of that document or none of them, and
\* once the delete has returned no search and no read of the chunk store
\* gives a chunk of that document.
C27_DeleteIsAtomic ==
    /\ dobs.during => (dobs.seen \cap dobs.doc = {} \/ dobs.doc \subseteq dobs.seen)
    /\ dobs.kind # "none" => dobs.files \cap dobs.deleted = {}


OnlyRequest == UNCHANGED <<fetchVars, storeVars, matchVars, answerVars, searchVars, tenantVars, pathVars, fileVars, validateVars, parseVars, deleteVars, queryVars, whitelistVars, processVars, sessionFileVars>>

NextRequest ==
    \/ \E file_name \in RequestFiles, content \in {<<T_a>>}, process_ok \in BOOLEAN, embed_ok \in BOOLEAN :
          UploadRequest(file_name, content, process_ok, embed_ok) /\ OnlyRequest
    \/ \E file_name \in CaseFiles : DeleteRequest(file_name) /\ OnlyRequest
    \/ \E mode \in Modes : RetrieveRequest(mode) /\ OnlyRequest

SpecRequest == InitCase /\ [][NextRequest]_vars

\* C28: an upload that was refused for its extension, or whose processing
\* failed, leaves the case as it was: the files in the case directory are
\* those that were there before the upload, and the document index, the raw
\* text files, the collection and the lexical index are unchanged
C28_FailedUploadLeavesCase ==
    ureq.outcome \in {"UnsupportedType", "ProcessingFailed"} =>
        /\ ureq.before.files \subseteq kase.files
        /\ kase.files \subseteq ureq.before.files
        /\ Persisted(kase) = Persisted(ureq.before)
        /\ kase.index = ureq.before.index


OnlyQuery == UNCHANGED <<storeVars, matchVars, answerVars, searchVars, caseVars, tenantVars, pathVars, fileVars, validateVars, parseVars, deleteVars, requestVars, whitelistVars, processVars, sessionFileVars>>

NextQuery ==
    \/ \E pages \in SearchOutcomes, down \in SUBSET FailingUrls :
          GetLegalSources(pages, down, Epoch) /\ OnlyQuery
    \/ \E i \in 1..Len(WHITELIST_DOMAINS) : RemoveDomain(i) /\ OnlyFetch
    \/ RestoreWhitelist /\ OnlyFetch

SpecQuery == Init /\ [][NextQuery]_vars

\* the fetches of a call that ended with a snapshot
Succeeded(t) == t.outcome \notin FetchExceptions
TriedOf(site) == SelectSeq(glast.tried, LAMBDA t : t.site = site)

\* C29: whatever search pages fail and whatever candidates end in
\* DomainNotAllowed or FetchError, get_legal_sources_for_query returns: every
\* candidate was tried, the list returned holds the snapshots of the fetches
\* that succeeded and no other, in the order gov, acas, citizens, no site
\* gave more than 2 candidates, and every snapshot's URL passes the whitelist
C29_QueryHelperNeverFails ==
    glast.op = "query" =>
        /\ ~glast.raised
        /\ [i \in 1..Len(glast.tried) |-> glast.tried[i].url] = glast.candidates
        /\ glast.tried = TriedOf("gov") \o TriedOf("acas") \o TriedOf("citizens")
        /\ \A site \in Sites : Len(TriedOf(site)) <= 2
        /\ \A site \in Sites : ~glast.pages[site].ok => TriedOf(site) = <<>>
        /\ LET won == SelectSeq(glast.tried, Succeeded)
           IN  glast.sources = [i \in 1..Len(won) |-> won[i].snap[1]]
        /\ \A i \in 1..Len(glast.sources) :
              /\ is_domain_whitelisted(glast.sources[i].url, glast.wl)
              /\ \E j \in 1..Len(glast.candidates) : glast.candidates[j] = glast.sources[i].url

\* a call where one search page failed, one candidate was refused by the
\* whitelist, one could not be fetched, and a snapshot came back
W_C29 ==
    /\ glast.op = "query"
    /\ \E site \in Sites : ~glast.pages[site].ok
    /\ \E i \in 1..Len(glast.tried) : glast.tried[i].outcome = "DomainNotAllowed"
    /\ \E i \in 1..Len(glast.tried) : glast.tried[i].outcome = "FetchError"
    /\ Len(glast.sources) >= 1


\* the prompt of the attempt that follows one that failed with these errors:
\* the stricter prefix listing them, before the system prompt
StricterAfter(errors) == [stricter |-> TRUE, errors |-> errors]

\* C30: the first attempt of a call runs with the system prompt alone; every
\* later attempt runs with the stricter prompt that lists the errors of the
\* attempt just before it and no others, and never with the system prompt
\* alone. This holds for the attempts made and for the one in flight.
C30_StricterPromptAfterFailure ==
    /\ \A i \in 1..Len(hist) :
          IF i = 1 THEN hist[i].prompt = NoPrompt
          ELSE /\ ~hist[i - 1].all_valid
               /\ hist[i - 1].errors # <<>>
               /\ hist[i].prompt = StricterAfter(hist[i - 1].errors)
    /\ pc = "waiting" =>
          /\ attempt = Len(hist)
          /\ current_prompt = IF attempt = 0 THEN NoPrompt
                              ELSE StricterAfter(hist[attempt].errors)

\* a third attempt made after two failed attempts whose errors differ
W_C30 ==
    /\ Len(hist) = 3
    /\ hist[1].errors # hist[2].errors
    /\ hist[3].prompt = StricterAfter(hist[2].errors)


\* C31: an attempt whose answer holds no parsable citation fails with the
\* one error "No citations found despite available evidence." when client
\* evidence or legal sources were retrieved; when nothing was retrieved it is
\* accepted, it is the last attempt of the call, and the response returned
\* carries that answer with citations_valid = true and no errors
C31_NoCitationsVerdict ==
    \A i \in 1..Len(hist) :
        hist[i].citations = <<>> =>
            IF env.client_evidence # <<>> \/ env.legal_sources # <<>>
            THEN /\ ~hist[i].all_valid
                 /\ hist[i].errors = <<NoCitationsError>>
            ELSE /\ hist[i].all_valid
                 /\ hist[i].errors = <<>>
                 /\ i = Len(hist)
                 /\ response.citations_valid
                 /\ response.answer = hist[i].answer
                 /\ response.citations = <<>>
                 /\ response.validation_errors = <<>>

\* a call with evidence whose first answer cited nothing and whose second
\* answer was accepted
W_C31 ==
    /\ env.client_evidence # <<>>
    /\ Len(hist) = 2
    /\ hist[1].citations = <<>>
    /\ hist[1].errors = <<NoCitationsError>>
    /\ hist[2].all_valid


\* a marker whose locator is an http(s) URL
UrlMarker(seg) ==
    /\ seg.kind = "marker"
    /\ \/ StartsWith(LStrip(seg.loc), <<"h","t","t","p",":","/","/">>)
       \/ StartsWith(LStrip(seg.loc), S_https)

\* a legal marker that cites a handed snapshot of a whitelisted host with an
\* excerpt found verbatim in the snapshot's text
CitesHandedSnapshot(seg) ==
    /\ UrlMarker(seg) /\ seg.page = None
    /\ is_domain_whitelisted(Strip(seg.loc), whitelist)
    /\ \E k \in 1..Len(env.legal_sources) :
          /\ env.legal_sources[k].url = Strip(seg.loc)
          /\ Contains(env.legal_sources[k].text, Strip(seg.quote))

Markers(text) == SelectSeq(text, LAMBDA seg : seg.kind = "marker")

\* C32: a marker with an http(s) URL locator yields no client citation, an
\* attempt has as many citations as its answer has markers when every marker
\* is one that cites a handed snapshot, and such an attempt is accepted
C32_MarkerTypeByLocator ==
    \A i \in 1..Len(hist) :
        LET markers == Markers(hist[i].answer)
            cits == hist[i].citations
        IN  /\ \A m \in 1..Len(markers) : UrlMarker(markers[m]) =>
                  \A c \in 1..Len(cits) :
                      cits[c].source_type = "client" => cits[c].file_name # Strip(markers[m].loc)
            /\ (markers # <<>> /\ \A m \in 1..Len(markers) : CitesHandedSnapshot(markers[m])) =>
                  /\ Len(cits) = Len(markers)
                  /\ hist[i].all_valid


\* the two lists a hybrid search fuses, as the two services returned them
LexicalList == search_keywords(SearchChunks, bm25_scores, sq.top_k * 3)
VectorList == search_similar(SearchChunks, chroma_distances, sq.top_k * 3)
IdsOf(list) == {list[i].chunk_id : i \in 1..Len(list)}

\* the min-max normalized score of a chunk within one list: 0 for a chunk the
\* list does not hold; in a list whose scores are all equal, 1 when that
\* score is positive and 0 otherwise
MinMax(list, chunk_id) ==
    IF chunk_id \notin IdsOf(list) THEN FZero
    ELSE LET scores == {list[i].score : i \in 1..Len(list)}
             lo == CHOOSE s \in scores : \A t \in scores : FLeq(s, t)
             hi == CHOOSE s \in scores : \A t \in scores : FLeq(t, s)
             own == list[CHOOSE i \in 1..Len(list) : list[i].chunk_id = chunk_id].score
         IN  IF FEq(lo, hi) THEN (IF hi.n > 0 THEN FOne ELSE FZero)
             ELSE FDiv(FSub(own, lo), FSub(hi, lo))

\* C33: the fused list of a hybrid search holds the chunks of the lexical
\* list and of the vector list, each chunk once, and the score of a chunk is
\* w_lex * s_lex + w_vec * s_vec, s being the chunk's min-max normalized score
\* within each list and 0 on a side that did not return the chunk
C33_FusionIsWeightedUnion ==
    sq.mode = "hybrid" =>
        /\ IdsOf(sres.ranked) = IdsOf(LexicalList) \cup IdsOf(VectorList)
        /\ \A i, j \in 1..Len(sres.ranked) :
              sres.ranked[i].chunk_id = sres.ranked[j].chunk_id => i = j
        /\ \A i \in 1..Len(sres.ranked) :
              FEq(sres.ranked[i].score,
                  FAdd(FMul(FHalf, MinMax(LexicalList, sres.ranked[i].chunk_id)),
                       FMul(FHalf, MinMax(VectorList, sres.ranked[i].chunk_id))))

\* a hybrid search where a chunk came from the lexical side only, one from
\* the vector side only, one from both, and both lists had unequal scores
W_C33 ==
    /\ sq.mode = "hybrid"
    /\ IdsOf(LexicalList) \ IdsOf(VectorList) # {}
    /\ IdsOf(VectorList) \ IdsOf(LexicalList) # {}
    /\ IdsOf(LexicalList) \cap IdsOf(VectorList) # {}
    /\ \E i, j \in 1..Len(LexicalList) : FLess(LexicalList[i].score, LexicalList[j].score)
    /\ \E i, j \in 1..Len(VectorList) : FLess(VectorList[i].score, VectorList[j].score)


OnlyWhitelist == UNCHANGED <<fetchVars, storeVars, matchVars, answerVars, searchVars, caseVars, tenantVars, pathVars, fileVars, validateVars, parseVars, deleteVars, requestVars, queryVars, processVars, sessionFileVars>>

NextWhitelist == \E url \in WhitelistUrls, wl \in Whitelists : CheckWhitelist(url, wl) /\ OnlyWhitelist

SpecWhitelist == Init /\ [][NextWhitelist]_vars

\* the host of a URL, lower case: what stands between "://" and the first
\* "/", "?" or "#", without the user information before "@" and without the
\* port after ":"
RECURSIVE AfterLastAt(_)
AfterLastAt(s) ==
    IF \A i \in 1..Len(s) : s[i] # "@" THEN s
    ELSE AfterLastAt(SubSeq(s, 1 + CHOOSE i \in 1..Len(s) : s[i] = "@", Len(s)))

RECURSIVE UntilColon(_)
UntilColon(s) == IF s = <<>> \/ Head(s) = ":" THEN <<>> ELSE <<Head(s)>> \o UntilColon(Tail(s))

UrlHost(url) == Lower(UntilColon(AfterLastAt(UntilDelim(AfterScheme(url)))))

\* the rule of the whitelist on a host
HostMatches(host, wl) ==
    \E i \in 1..Len(wl) :
        \/ host = wl[i]
        \/ Len(host) > Len(wl[i]) + 1
              /\ SubSeq(host, Len(host) - Len(wl[i]), Len(host)) = <<".">> \o wl[i]

\* C34: the fetcher's whitelist test and the validator's give the same
\* verdict on every URL and whitelist, and they accept a URL exactly when
\* its lower-cased host is an entry of the whitelist or ends with "." and an
\* entry; "evilgov.uk" is refused under the entry "gov.uk"
C34_OneWhitelistPredicate ==
    wlast.op = "check" =>
        /\ wlast.fetcher = wlast.validator
        /\ wlast.fetcher = HostMatches(UrlHost(wlast.url), wlast.wl)
        /\ wlast.url = U_evilgov => ~wlast.fetcher /\ ~wlast.validator


OnlyProcess == UNCHANGED <<fetchVars, storeVars, matchVars, answerVars, searchVars, caseVars, tenantVars, pathVars, fileVars, validateVars, parseVars, deleteVars, requestVars, queryVars, whitelistVars, sessionFileVars>>

NextProcess ==
    \/ \E doc \in DocumentInputs : ProcessUpload(doc) /\ OnlyProcess
    \/ ReadProvenance /\ OnlyProcess

SpecProcess == Init /\ [][NextProcess]_vars

\* C35: every chunk of a Word document carries the index, counted from 1
\* over all paragraphs of the document, of the first paragraph of the group
\* of paragraphs the chunk was built from
C35_ParagraphIndexIsGroupStart ==
    (dlast.op # "none" /\ dlast.doc.suffix = ".docx") =>
        \A i \in 1..Len(dlast.chunks) :
            /\ dlast.chunks[i].group # <<>>
            /\ dlast.chunks[i].para_idx = Some(dlast.chunks[i].group[1])


\* exactly one of page number and paragraph index is set, and it is at least 1
OneLocator(provenance) ==
    /\ (provenance.page_num = None) # (provenance.para_idx = None)
    /\ provenance.page_num # None => provenance.page_num[1] >= 1
    /\ provenance.para_idx # None => provenance.para_idx[1] >= 1

LocatorOf(suffix, provenance) ==
    IF suffix = ".pdf" THEN provenance.page_num # None ELSE provenance.para_idx # None

\* C36: every chunk process_document produces, and every provenance the
\* chunk store or the vector index hands back for it, has exactly one of page
\* number and paragraph index set (the page for a PDF, the paragraph for a
\* Word document), with a value of at least 1
C36_ExactlyOneLocator ==
    /\ \A i \in 1..Len(dlast.chunks) :
          OneLocator(dlast.chunks[i]) /\ LocatorOf(dlast.doc.suffix, dlast.chunks[i])
    /\ \A i \in 1..Len(dlast.stored) :
          OneLocator(dlast.stored[i]) /\ LocatorOf(dlast.doc.suffix, dlast.stored[i])
    /\ \A i \in 1..Len(dlast.vector) :
          OneLocator(dlast.vector[i]) /\ LocatorOf(dlast.doc.suffix, dlast.vector[i])

\* a two-page PDF was processed and its chunks were read back from both stores
W_C36 ==
    /\ dlast.op = "read" /\ dlast.doc.suffix = ".pdf"
    /\ Len(dlast.vector) >= 2 /\ Len(dlast.stored) = Len(dlast.vector)
    /\ dlast.vector[Len(dlast.vector)].page_num = Some(2)
    /\ dlast.stored[Len(dlast.stored)].para_idx = None


OcrProblems == {"failed", "timeout", "absent"}

\* the numbers of the pages of the uploaded file that have text
PagesWithText(doc) == {i \in 1..Len(doc.pages) : doc.pages[i].chars > 0}

\* an OCR problem does not fail the upload
OcrNeverFails == (dlast.op # "none" /\ dlast.doc.suffix = ".pdf") => dlast.outcome = "ok"

\* after an OCR problem the chunks are those of the text the file had, on
\* the pages it was on, with ocr = false
OcrProblemKeepsText ==
    (dlast.op # "none" /\ dlast.doc.suffix = ".pdf" /\ dlast.is_scanned
        /\ dlast.doc.ocr \in OcrProblems) =>
        /\ {dlast.chunks[i].page_num : i \in 1..Len(dlast.chunks)}
               = {Some(n) : n \in PagesWithText(dlast.doc)}
        /\ \A i \in 1..Len(dlast.chunks) : ~dlast.chunks[i].ocr

\* the flag is on a chunk only when text was recognised in this call
OcrFlagOnlyWhenRan ==
    dlast.op # "none" => \A i \in 1..Len(dlast.chunks) : dlast.chunks[i].ocr => dlast.ocr_ran

\* C37: an OCR problem (no binary, a failure, a timeout) never fails the
\* processing of a scanned PDF: the text that could be extracted is chunked
\* with ocr = false and its page numbers; and a chunk has ocr = true only
\* when OCR did run
C37_OcrProblemsNeverFail == OcrNeverFails /\ OcrProblemKeepsText /\ OcrFlagOnlyWhenRan


OnlySessionFile == UNCHANGED <<fetchVars, storeVars, matchVars, answerVars, searchVars, caseVars, tenantVars, pathVars, fileVars, validateVars, parseVars, deleteVars, requestVars, queryVars, whitelistVars, processVars>>

NextSessionFile ==
    \/ \E c \in Callers, ids \in TurnIds : LoadAndModify(c, TurnFacts(c), ids) /\ OnlySessionFile
    \/ \E c \in Callers : OpenTemp(c) /\ OnlySessionFile
    \/ \E c \in Callers : WriteTemp(c) /\ OnlySessionFile
    \/ \E c \in Callers : ReplaceSession(c) /\ OnlySessionFile

SpecSessionFile == Init /\ [][NextSessionFile]_vars

\* both calls have returned
BothSucceeded == \A c \in Callers : sdisk.calls[c].pc = "done"

\* the session on disk counts both turns and holds the facts and the ids of both
HoldsBothTurns ==
    BothSucceeded =>
        /\ sdisk.json # 0 /\ sdisk.inodes[sdisk.json] # <<>>
        /\ LET persisted == sdisk.inodes[sdisk.json][1]
           IN  /\ persisted.turn_count = 2
               /\ \A c \in Callers :
                     /\ ElementsOf(sdisk.calls[c].facts) \subseteq ElementsOf(persisted.retrieved_facts)
                     /\ ElementsOf(sdisk.calls[c].ids) \subseteq ElementsOf(persisted.legal_sources_used)

\* session.json, once it exists, holds a whole session
NeverPartial == sdisk.json # 0 => sdisk.inodes[sdisk.json] # <<>>

\* C38: when two calls for one case both succeed, in any interleaving of
\* their load, modify and save steps, the session on disk has its turn count
\* raised by 2 and holds the facts and legal source ids of both calls, and
\* session.json never holds a partly written session
C38_NoSessionUpdateLost == HoldsBothTurns /\ NeverPartial


NoDuplicates(seq) == \A i, j \in 1..Len(seq) : seq[i] = seq[j] => i = j

\* C39: whatever updates were made, legal_sources_used of the session on
\* disk names no source id twice, also when the id list of one update names
\* a snapshot more than once
C39_LegalSourcesUnique ==
    (sdisk.json # 0 /\ sdisk.inodes[sdisk.json] # <<>>) =>
        NoDuplicates(sdisk.inodes[sdisk.json][1].legal_sources_used)


\* the file names whose entry of the documents map lists the chunk id
ListedIn(k, chunk_id) ==
    {file_name \in DOMAIN k.documents : chunk_id \in ElementsOf(k.documents[file_name].chunk_ids)}

\* C40: whatever documents were indexed and deleted, every chunk id of the
\* chunks map is listed by exactly one entry of the documents map, every
\* listed chunk id has an entry in the chunks map and a raw_text file, and no
\* raw_text file or vector exists for a chunk id the chunks map does not hold
C40_NoOrphans ==
    /\ \A chunk_id \in DOMAIN kase.chunks : Cardinality(ListedIn(kase, chunk_id)) = 1
    /\ \A file_name \in DOMAIN kase.documents :
          \A chunk_id \in ElementsOf(kase.documents[file_name].chunk_ids) :
              chunk_id \in DOMAIN kase.chunks /\ chunk_id \in DOMAIN kase.raw_text
    /\ (DOMAIN kase.raw_text \cup DOMAIN kase.collection) \subseteq DOMAIN kase.chunks

====
